---- MODULE Spec2Model ----
(***************************************************************************)
(* Model of the ingestion core of downloader_qbench_data: the five entity   *)
(* sync workers (ingestion/customers.py, orders.py, samples.py, batches.py, *)
(* tests.py), the dependency recovery service (ingestion/recovery.py), the  *)
(* pipeline orchestrator (ingestion/pipeline.py) and the API client         *)
(* (clients/qbench.py).                                                     *)
(*                                                                          *)
(* Spec         : worker runs and recoveries against the relational store.  *)
(* PipelineSpec : sync_all_entities and sync_recent_entities driving the     *)
(*                handlers.                                                 *)
(* ClientSpec   : QBenchClient operations against the API and token server. *)
(***************************************************************************)
EXTENDS Integers, Sequences, FiniteSets, TLC

\* Python's None for an id, a datetime or a page count.
NoneVal == 0 - 1

Kinds == {"customers", "orders", "samples", "batches", "tests"}

\* A default order that runs tests before batches.
TestsBeforeBatches == <<"customers", "orders", "samples", "tests", "batches">>

DEFAULT_SYNC_SEQUENCE == <<"customers", "orders", "samples", "batches", "tests">>

API_MAX_PAGE_SIZE == 50

MAX_BAD_REQUEST_PAGES == 10

\* ---------------------------------------------------------------- bounds
\* Worker runs and top-level ensure calls in one behaviour.
MaxRuns == 2
\* Errors in one behaviour: HTTP errors of the remote API, failed commits.
MaxFaults == 1
\* dependency_max_attempts handed to the workers.
MaxAttempts == 2

\* ----------------------------------------------------------------- state
VARIABLES
    store,   \* the relational tables: kind -> (id -> row)
    ckpt,    \* the sync_checkpoints table: kind -> row
    w,       \* the worker run in progress (its arguments and locals)
    rec,     \* the dependency recovery in progress
    runs,    \* worker runs and ensure calls started so far
    faults,  \* errors injected so far
    p,       \* the sync_all_entities call in progress
    client,  \* the QBenchClient and its _request call in progress
    recent,  \* the sync_recent_entities call in progress
    remote,  \* the remote system's entities: kind -> set of payloads
    dup      \* a second process running a worker at the same time

vars == <<store, ckpt, w, rec, runs, faults, p, client, recent, remote, dup>>

\* What the worker and recovery steps leave alone: the orchestrator's call.
workerVars == <<store, ckpt, w, rec, runs, faults>>

\* ------------------------------------------------------- remote system
\* One remote payload, reduced to the fields the ingestion code reads.
\* dep: customer_account_id / order_id / sample_id (0 when the payload has
\* none); created: parse_qbench_datetime(date_created); name: the customer
\* has a name; complete: a listed test carries every required field.
Item(id, dep, sids, tids, created, name, complete) == [id |-> id, dep |-> dep, sample_ids |-> sids, test_ids |-> tids, created |-> created, name |-> name, complete |-> complete]

RemoteCustomers == { Item(1, 0, <<>>, <<>>, 5, TRUE, TRUE), Item(2, 0, <<>>, <<>>, 1, TRUE, TRUE), Item(3, 0, <<>>, <<>>, 2, FALSE, TRUE) }

\* Order 3 names a customer the remote system does not have, order 4 none.
RemoteOrders == { Item(1, 1, <<>>, <<>>, 5, TRUE, TRUE), Item(2, 2, <<>>, <<>>, 2, TRUE, TRUE), Item(3, 9, <<>>, <<>>, 1, TRUE, TRUE), Item(4, 0, <<>>, <<>>, NoneVal, TRUE, TRUE) }

RemoteSamples == { Item(1, 1, <<>>, <<>>, 5, TRUE, TRUE), Item(2, 2, <<>>, <<>>, 2, TRUE, TRUE), Item(3, 3, <<>>, <<>>, 1, TRUE, TRUE), Item(4, 4, <<>>, <<>>, NoneVal, TRUE, TRUE) }

\* Test 3 names a sample the remote system does not have.
RemoteTests == { Item(1, 1, <<>>, <<>>, 5, TRUE, FALSE), Item(2, 2, <<>>, <<>>, 2, TRUE, TRUE), Item(3, 7, <<>>, <<>>, 1, TRUE, TRUE) }

RemoteBatches == { Item(1, 0, <<1>>, <<1>>, 5, TRUE, TRUE), Item(2, 0, <<2, 3>>, <<>>, 2, TRUE, TRUE), Item(3, 0, <<>>, <<>>, 1, TRUE, TRUE) }

Remote(kind) ==
    CASE kind = "customers" -> RemoteCustomers
      [] kind = "orders" -> RemoteOrders
      [] kind = "samples" -> RemoteSamples
      [] kind = "tests" -> RemoteTests
      [] OTHER -> RemoteBatches

\* The run parameters a caller hands to a worker: page_size, and
\* full_refresh / ignore_checkpoint / start_datetime / end_datetime as an
\* incremental run, a full refresh, a windowed run (with and without an upper
\* bound) and an incremental run with a lower bound.
PageSizes == {2, 60}

RunMode(full_refresh, ignore_checkpoint, start_datetime, end_datetime) == [full_refresh |-> full_refresh, ignore_checkpoint |-> ignore_checkpoint, start_datetime |-> start_datetime, end_datetime |-> end_datetime]

RunModes == { RunMode(FALSE, FALSE, NoneVal, NoneVal), RunMode(TRUE, FALSE, NoneVal, NoneVal), RunMode(FALSE, TRUE, 3, NoneVal), RunMode(FALSE, TRUE, 3, 4), RunMode(FALSE, FALSE, 3, NoneVal) }

\* --------------------------------------------------------------- helpers
Min(a, b) == IF a <= b THEN a ELSE b

Range(s) == { s[i] : i \in 1..Len(s) }

\* The items of a set as a sequence, by ascending id or by descending
\* creation time.
RECURSIVE SortedItems(_, _)
SortedItems(S, asc) ==
    IF S = {} THEN <<>>
    ELSE LET first == CHOOSE a \in S : \A b \in S \ {a} :
                          IF asc THEN a.id < b.id ELSE a.created > b.created
         IN <<first>> \o SortedItems(S \ {first}, asc)

\* GET /qbench/api/v1/<kind>?page_num=&page_size=&sort_by=&sort_order= as the
\* remote system answers it: ascending id by default, descending creation
\* time for sort_by=date_created&sort_order=desc.
RemoteList(kind, page_num, page_size, sort_by, sort_order) ==
    LET all == SortedItems(remote[kind], ~(sort_by = "date_created" /\ sort_order = "desc"))
        n == Len(all)
        lo == (page_num - 1) * page_size + 1
        hi == Min(page_num * page_size, n)
    IN [data |-> IF lo > n THEN <<>> ELSE SubSeq(all, lo, hi),
        total_pages |-> (n + page_size - 1) \div page_size]

\* The payload fetch_<kind> returns as None (the remote answered 404): it
\* carries id 0, which no remote entity has.
NotFound == Item(0, 0, <<>>, <<>>, NoneVal, FALSE, FALSE)

\* GET /qbench/api/v1/<kind>/<id>: the payload, or NotFound for a 404.
RemoteFetch(kind, id) ==
    IF \E it \in remote[kind] : it.id = id THEN CHOOSE it \in remote[kind] : it.id = id ELSE NotFound

\* A sync_checkpoints row; status "absent" stands for no row.
NoCheckpoint == [last_synced_at |-> NoneVal, last_cursor |-> NoneVal, last_id |-> NoneVal, status |-> "absent", failed |-> FALSE, message |-> "None"]

_get_or_create_checkpoint(c) == IF c.status = "absent" THEN [c EXCEPT !.status = "never", !.failed = FALSE] ELSE c

EmptySummary == [processed |-> 0, skipped_missing |-> 0, skipped_unknown |-> 0, skipped_old |-> 0, pages_seen |-> 0, dependencies_recovered |-> 0, page_bad_request_failures |-> 0, detail_bad_request_failures |-> 0, detail_fetches |-> 0, skipped_entities |-> <<>>]

IdleWorker == [pc |-> "idle", kind |-> "customers", full_refresh |-> FALSE, page_size |-> 0, start_datetime |-> NoneVal, end_datetime |-> NoneVal, ignore_checkpoint |-> FALSE, resolver |-> FALSE, last_id |-> NoneVal, max_id |-> NoneVal, max_synced_at |-> NoneVal, start_page |-> 1, current_page |-> 1, total_pages |-> NoneVal, known |-> [k \in Kinds |-> {}], items |-> <<>>, idx |-> 0, depq |-> <<>>, records_to_upsert |-> <<>>, stop_after_page |-> FALSE, summary |-> EmptySummary, requested |-> <<>>, progress |-> <<>>, error |-> "None", outcome |-> "none", before |-> NoCheckpoint]

IdleRecovery == [pc |-> "idle", caller |-> "none", entity_type |-> "customers", entity_id |-> 0, max_attempts |-> 0, attempts |-> 0, last_error |-> "None", stack |-> <<>>, visited |-> {}, outcome |-> [succeeded |-> FALSE, attempts |-> 0, error |-> "None"], writes |-> 0, fetches |-> 0]

\* No sync_all_entities call in progress.
\* sync_recent_entities before its call: no recovery service made yet.
NoRecent == [pc |-> "idle", lookback_days |-> NoneVal, created |-> 0, closed |-> 0, invoked |-> 0, resolver |-> 0, outcome |-> "none"]

IdlePipeline == [pc |-> "idle", sequence |-> <<>>, idx |-> 0, full_refresh |-> FALSE, page_size |-> NoneVal, has_callback |-> FALSE, raise_on_error |-> FALSE, results |-> <<>>, failed_entity |-> "None", error_message |-> "None", succeeded |-> FALSE, outcome |-> "none", calls |-> <<>>, events |-> <<>>, reported |-> 0, given |-> <<>>, start_datetime |-> NoneVal, end_datetime |-> NoneVal, ignore_checkpoint |-> FALSE, dependency_resolver |-> 0, dependency_max_attempts |-> 3]

\* An API response, and the client before its construction.
Response(status, body, error, error_description, retry_after) == [status |-> status, body |-> body, error |-> error, error_description |-> error_description, retry_after |-> retry_after]

Plain(status) == Response(status, "text", "", "", "None")

NoPayload == [type |-> "none", text |-> "", value |-> 0]

NoAuths == [refresh |-> 0, on401 |-> 0, on400 |-> 0]

NoSeen == [s401 |-> 0, s400auth |-> 0, s429 |-> 0]

NoSent == [checked |-> FALSE, due |-> FALSE, fresh |-> 0]

NoClient == [pc |-> "absent", op |-> "None", include_raw |-> FALSE, legacy |-> FALSE, max_retries |-> 0, backoff_factor |-> 0, attempt |-> 0, delay |-> 0, reauth_attempts |-> 0, response |-> Plain(0), now |-> 0, token_expires_at |-> NoneVal, token_payload |-> NoPayload, ops |-> 0, calls |-> 0, auths |-> NoAuths, seen |-> NoSeen, slept |-> NoneVal, sent |-> NoSent, due |-> FALSE, fresh |-> 0, result |-> "none"]

\* No second process: its worker has not been called. high is the highest
\* last_id and last_cursor seen in the samples checkpoint when the processor
\* changed hands.
NoDuplicate == [w |-> IdleWorker, high |-> [last_id |-> NoneVal, last_cursor |-> NoneVal]]

Init ==
    /\ store = [k \in Kinds |-> << >>]
    /\ ckpt = [k \in Kinds |-> NoCheckpoint]
    /\ w = IdleWorker
    /\ rec = IdleRecovery
    /\ runs = 0
    /\ faults = 0
    /\ p = IdlePipeline
    /\ client = NoClient
    /\ recent = NoRecent
    /\ remote = [k \in Kinds |-> Remote(k)]
    /\ dup = NoDuplicate

\* window_mode = bool(ignore_checkpoint and start_datetime)
window_mode == w.ignore_checkpoint /\ w.start_datetime # NoneVal

\* ------------------------------------------------- worker: start of run
\* The kinds whose ids a worker loads into known_* at its start.
LoadedKinds(kind) ==
    CASE kind = "orders" -> {"customers"}
      [] kind = "samples" -> {"orders"}
      [] kind = "tests" -> {"samples"}
      [] kind = "batches" -> {"samples", "tests"}
      [] OTHER -> {}

\* A full refresh that clears the ids and leaves the stored cursor.
StartCheckpointKeepsCursor(c, full_refresh) ==
    LET c0 == _get_or_create_checkpoint(c)
    IN IF full_refresh THEN [c0 EXCEPT !.last_synced_at = NoneVal, !.last_id = NoneVal] ELSE c0

\* The opening transaction of sync_<kind>.
StartCheckpoint(c, full_refresh) ==
    LET c0 == _get_or_create_checkpoint(c)
    IN IF full_refresh THEN [c0 EXCEPT !.last_synced_at = NoneVal, !.last_id = NoneVal, !.last_cursor = 1] ELSE c0

SyncStart(kind, full_refresh, page_size, start_datetime, end_datetime, ignore_checkpoint, resolver) ==
    /\ w.pc = "idle" /\ rec.pc = "idle"
    /\ runs < MaxRuns
    /\ LET c == StartCheckpoint(ckpt[kind], full_refresh)
           start_page == IF ignore_checkpoint \/ c.last_cursor = NoneVal \/ c.last_cursor = 0 THEN 1 ELSE c.last_cursor
           last_id == IF ignore_checkpoint THEN NoneVal ELSE c.last_id
           last_synced_at == IF ignore_checkpoint THEN NoneVal ELSE c.last_synced_at
       IN /\ ckpt' = [ckpt EXCEPT ![kind] = [c EXCEPT !.status = "running", !.failed = FALSE, !.message = "None"]]
          /\ w' = [IdleWorker EXCEPT !.pc = "list", !.kind = kind, !.full_refresh = full_refresh,
                      !.page_size = Min(page_size, API_MAX_PAGE_SIZE),
                      !.start_datetime = start_datetime, !.end_datetime = end_datetime,
                      !.ignore_checkpoint = ignore_checkpoint, !.resolver = resolver,
                      !.last_id = last_id, !.max_id = last_id, !.max_synced_at = last_synced_at,
                      !.start_page = start_page, !.current_page = start_page,
                      !.known = [k \in Kinds |-> IF k \in LoadedKinds(kind) THEN DOMAIN store[k] ELSE {}],
                      !.before = ckpt[kind]]
    /\ runs' = runs + 1
    /\ UNCHANGED <<store, rec, faults, p, client, recent, remote, dup>>

\* ------------------------------------------------- worker: page request
\* sort_by / sort_order of the list request, per worker.
SortParams(kind) ==
    CASE kind = "customers" -> <<"None", "None">>
      [] kind = "orders" -> <<"date_created", "desc">>
      [] kind = "batches" -> IF window_mode THEN <<"date_created", "desc">> ELSE <<"None", "None">>
      [] OTHER -> IF window_mode THEN <<"date_created", "desc">> ELSE <<"id", "asc">>

\* client.list_<kind>(page_num=current_page, ...) answered with a payload.
ListPage ==
    /\ w.pc = "list"
    /\ LET sp == SortParams(w.kind)
           payload == RemoteList(w.kind, w.current_page, w.page_size, sp[1], sp[2])
           total == IF payload.total_pages # 0 THEN payload.total_pages ELSE w.total_pages
           req == Append(w.requested, [page_num |-> w.current_page, sort_by |-> sp[1], sort_order |-> sp[2]])
       IN w' = IF payload.data = <<>>
               THEN [w EXCEPT !.pc = "complete", !.total_pages = total, !.requested = req, !.items = <<>>, !.idx = 0]
               ELSE [w EXCEPT !.pc = "item", !.total_pages = total, !.requested = req,
                              !.items = payload.data, !.idx = 1, !.records_to_upsert = <<>>,
                              !.stop_after_page = FALSE, !.summary.pages_seen = @ + 1]
    /\ UNCHANGED <<store, ckpt, rec, runs, faults, p, client, recent, remote, dup>>

Skipped(entity_id, reason, dep_id, attempts, error) == [entity_id |-> entity_id, reason |-> reason, dependency_id |-> dep_id, recovery_attempts |-> attempts, recovery_error |-> error]

\* client.list_<kind> raising httpx.HTTPStatusError(status). sync_tests skips a
\* page that answers 400; every other worker, and every other status, lets
\* the error reach the except clause of the run.
ListPageError(status) ==
    /\ w.pc = "list"
    /\ faults < MaxFaults
    /\ faults' = faults + 1
    /\ LET sp == SortParams(w.kind)
           req == Append(w.requested, [page_num |-> w.current_page, sort_by |-> sp[1], sort_order |-> sp[2]])
           failures == w.summary.page_bad_request_failures + 1
       IN IF w.kind = "tests" /\ status = 400
          THEN LET w1 == [w EXCEPT !.requested = req,
                                   !.summary.page_bad_request_failures = failures,
                                   !.summary.skipped_entities = Append(@, Skipped(w.current_page, "list_tests_bad_request", 0, 0, "None"))]
               IN IF failures > MAX_BAD_REQUEST_PAGES
                  THEN w' = [w1 EXCEPT !.pc = "except", !.error = "too_many_bad_request_pages"]
                  ELSE IF w.total_pages # NoneVal /\ w.current_page + 1 > w.total_pages
                       THEN w' = [w1 EXCEPT !.pc = "except", !.current_page = @ + 1, !.error = "page_exceeds_total_pages"]
                       ELSE w' = [w1 EXCEPT !.pc = "list", !.current_page = @ + 1]
          ELSE w' = [w EXCEPT !.pc = "except", !.requested = req, !.error = "http_error"]
    /\ UNCHANGED <<store, ckpt, rec, runs, p, client, recent, remote, dup>>

\* ------------------------------------------------- worker: one item
CurrentItem == w.items[w.idx]

\* item id <= last_id in a run that is not a full refresh
Stale(item) == ~w.full_refresh /\ w.last_id # NoneVal /\ item.id <= w.last_id

\* start_datetime and created_at and created_at < start_datetime
Older(item) == w.start_datetime # NoneVal /\ item.created # NoneVal /\ item.created < w.start_datetime

\* end_datetime and created_at and created_at > end_datetime
Newer(item) == w.end_datetime # NoneVal /\ item.created # NoneVal /\ item.created > w.end_datetime

\* The name of the dependency of a worker's items, as its skip reasons spell it.
DependencyName(kind) ==
    CASE kind = "orders" -> "customer"
      [] kind = "samples" -> "order"
      [] kind = "tests" -> "sample"
      [] OTHER -> "none"

\* The dependencies the worker checks for an item, in the order of its loops.
RECURSIVE Tagged(_, _)
Tagged(kind, ids) == IF ids = <<>> THEN <<>> ELSE <<[kind |-> kind, id |-> Head(ids)]>> \o Tagged(kind, Tail(ids))

ItemDependencies(kind, item) ==
    CASE kind = "orders" -> <<[kind |-> "customers", id |-> item.dep]>>
      [] kind = "samples" -> <<[kind |-> "orders", id |-> item.dep]>>
      [] kind = "tests" -> <<[kind |-> "samples", id |-> item.dep]>>
      [] kind = "batches" -> Tagged("samples", item.sample_ids) \o Tagged("tests", item.test_ids)
      [] OTHER -> <<>>

\* What the worker's loop decides about an item before it looks at the
\* item's dependencies.
PreCheck(kind, item) ==
    CASE kind = "customers" ->
            IF ~item.name THEN "missing_name"
            ELSE IF Stale(item) THEN "stale"
            ELSE IF Older(item) THEN "old_skip"
            ELSE IF Newer(item) THEN "beyond_end"
            ELSE "post"
      [] kind = "orders" ->
            IF item.dep = 0 THEN "missing_dep" ELSE "deps"
      [] kind = "batches" ->
            IF Stale(item) THEN "stale"
            ELSE IF window_mode /\ Older(item) THEN "old_break"
            ELSE IF ~window_mode /\ Older(item) THEN "old_skip"
            ELSE IF Newer(item) THEN "beyond_end"
            ELSE "deps"
      [] OTHER ->
            IF Stale(item) THEN "stale"
            ELSE IF item.dep = 0 THEN "missing_dep"
            ELSE "deps"

\* A loop in which samples and tests skip an item older than the window
\* and go on, without the stop.
PostCheckNoStop(kind, item) ==
    CASE kind = "orders" ->
            IF Stale(item) THEN "stale"
            ELSE IF Older(item) THEN "old_stop"
            ELSE IF Newer(item) THEN "beyond_end"
            ELSE "accept"
      [] kind \in {"samples", "tests"} ->
            IF window_mode /\ Older(item) THEN "beyond_end"
            ELSE IF Newer(item) THEN "beyond_end"
            ELSE "accept"
      [] OTHER -> "accept"

\* What the loop decides once the dependencies are known to exist.
PostCheck(kind, item) ==
    CASE kind = "orders" ->
            IF Stale(item) THEN "stale"
            ELSE IF Older(item) THEN "old_stop"
            ELSE IF Newer(item) THEN "beyond_end"
            ELSE "accept"
      [] kind \in {"samples", "tests"} ->
            IF window_mode /\ Older(item) THEN "old_break"
            ELSE IF Newer(item) THEN "beyond_end"
            ELSE "accept"
      [] OTHER -> "accept"

\* continue: on to the next item of the page, or to _persist_batch after the last.
NextItem(wr) == IF wr.idx >= Len(wr.items) THEN [wr EXCEPT !.pc = "persist", !.depq = <<>>] ELSE [wr EXCEPT !.pc = "item", !.idx = @ + 1, !.depq = <<>>]

\* break: leave the page's loop.
BreakPage(wr) == [wr EXCEPT !.pc = "persist", !.depq = <<>>]

ItemPre ==
    /\ w.pc = "item"
    /\ LET item == CurrentItem
           v == PreCheck(w.kind, item)
       IN w' = CASE v = "missing_name" ->
                      NextItem([w EXCEPT !.summary.skipped_missing = @ + 1,
                                         !.summary.skipped_entities = Append(@, Skipped(item.id, "missing_name", 0, 0, "None"))])
                 [] v = "missing_dep" ->
                      NextItem([w EXCEPT !.summary.skipped_missing = @ + 1,
                                         !.summary.skipped_entities = Append(@, Skipped(item.id, "missing_" \o DependencyName(w.kind) \o "_id", 0, 0, "None"))])
                 [] v \in {"stale", "old_skip"} -> NextItem([w EXCEPT !.summary.skipped_old = @ + 1])
                 [] v = "old_break" -> BreakPage([w EXCEPT !.stop_after_page = TRUE])
                 [] v = "beyond_end" -> NextItem(w)
                 [] v = "deps" -> [w EXCEPT !.pc = "deps", !.depq = ItemDependencies(w.kind, item)]
                 [] OTHER -> [w EXCEPT !.pc = "post"]
    /\ UNCHANGED <<store, ckpt, rec, runs, faults, p, client, recent, remote, dup>>

\* A skip that is counted but leaves no entry in skipped_entities.
UnknownDependencyUnreported(wr, item, dep, attempts, error) == NextItem([wr EXCEPT !.summary.skipped_unknown = @ + 1])

\* The skip recorded for an item whose dependency dep stays unknown.
UnknownDependency(wr, item, dep, attempts, error) ==
    NextItem([wr EXCEPT !.summary.skipped_unknown = @ + 1,
                        !.summary.skipped_entities = Append(@, Skipped(item.id, "unknown_" \o (IF dep.kind = "customers" THEN "customer" ELSE IF dep.kind = "orders" THEN "order" ELSE IF dep.kind = "samples" THEN "sample" ELSE "test"), dep.id, attempts, error))])

\* A dependency loop that lets an item through when its dependency is
\* unknown and no resolver is there to recover it.
DepDecisionNoSkip(kind, resolver, known, depq) ==
    IF kind = "batches" /\ ~resolver THEN "trust"
    ELSE IF depq = <<>> THEN "done"
    ELSE IF Head(depq).id \in known[Head(depq).kind] THEN "known"
    ELSE IF resolver THEN "recover"
    ELSE "known"

\* What the dependency loop of an item does next: "trust" is sync_batches
\* without a resolver (known_samples.update / known_tests.update), "known" a
\* dependency found in known_*, "recover" a call of
\* attempt_dependency_recovery, "skip" the unknown_<dependency> skip.
DepDecision(kind, resolver, known, depq) ==
    IF kind = "batches" /\ ~resolver THEN "trust"
    ELSE IF depq = <<>> THEN "done"
    ELSE IF Head(depq).id \in known[Head(depq).kind] THEN "known"
    ELSE IF resolver THEN "recover"
    ELSE "skip"

DepStep ==
    /\ w.pc = "deps"
    /\ LET item == CurrentItem
           d == DepDecision(w.kind, w.resolver, w.known, w.depq)
       IN CASE d = "trust" ->
                 /\ w' = [w EXCEPT !.pc = "post", !.depq = <<>>,
                                   !.known["samples"] = @ \cup Range(item.sample_ids),
                                   !.known["tests"] = @ \cup Range(item.test_ids)]
                 /\ rec' = rec
            [] d = "done" ->
                 /\ w' = [w EXCEPT !.pc = "post"]
                 /\ rec' = rec
            [] d = "known" ->
                 /\ w' = [w EXCEPT !.depq = Tail(@)]
                 /\ rec' = rec
            [] d = "recover" ->
                 /\ w' = [w EXCEPT !.pc = "recovering"]
                 /\ rec' = [IdleRecovery EXCEPT !.pc = "attempt", !.caller = "worker", !.entity_type = Head(w.depq).kind,
                                               !.entity_id = Head(w.depq).id, !.max_attempts = MaxAttempts]
            [] OTHER ->
                 /\ w' = UnknownDependency(w, item, Head(w.depq), 0, "None")
                 /\ rec' = rec
    /\ UNCHANGED <<store, ckpt, runs, faults, p, client, recent, remote, dup>>

\* attempt_dependency_recovery has returned its DependencyRecoveryOutcome.
RecoveryReturn ==
    /\ w.pc = "recovering"
    /\ rec.pc = "returned"
    /\ LET dep == Head(w.depq)
           out == rec.outcome
       IN w' = IF out.succeeded
               THEN [w EXCEPT !.pc = "deps", !.depq = Tail(@),
                              !.known[dep.kind] = @ \cup {dep.id},
                              !.summary.dependencies_recovered = @ + 1]
               ELSE UnknownDependency(w, CurrentItem, dep, out.attempts, out.error)
    /\ rec' = [rec EXCEPT !.pc = "idle"]
    /\ UNCHANGED <<store, ckpt, runs, faults, p, client, recent, remote, dup>>

\* The row a worker builds from a list item.
Row(item) == [id |-> item.id, dep |-> item.dep, sample_ids |-> item.sample_ids, test_ids |-> item.test_ids, created |-> item.created]

\* records_to_upsert.append(record) and the run's high-water marks.
Accept(wr, item) ==
    NextItem([wr EXCEPT !.records_to_upsert = Append(@, Row(item)),
                        !.summary.processed = @ + 1,
                        !.max_synced_at = IF item.created # NoneVal /\ (@ = NoneVal \/ item.created > @) THEN item.created ELSE @,
                        !.max_id = IF @ = NoneVal \/ item.id > @ THEN item.id ELSE @])

\* The rest of the loop body, after the dependency checks.
ItemPost ==
    /\ w.pc = "post"
    /\ LET item == CurrentItem
           v == PostCheck(w.kind, item)
       IN w' = CASE v = "stale" -> NextItem([w EXCEPT !.summary.skipped_old = @ + 1])
                 [] v = "old_stop" -> NextItem([w EXCEPT !.summary.skipped_old = @ + 1, !.stop_after_page = TRUE])
                 [] v = "old_break" -> BreakPage([w EXCEPT !.stop_after_page = TRUE])
                 [] v = "beyond_end" -> NextItem(w)
                 [] OTHER -> IF w.kind = "tests" /\ ~item.complete
                             THEN Accept([w EXCEPT !.summary.detail_fetches = @ + 1], item)
                             ELSE Accept(w, item)
    /\ UNCHANGED <<store, ckpt, rec, runs, faults, p, client, recent, remote, dup>>

\* _ensure_required_fields: client.fetch_test raising HTTPStatusError(status)
\* for a listed test that lacks a required field.
DetailFetchError(status) ==
    /\ w.pc = "post"
    /\ w.kind = "tests"
    /\ PostCheck(w.kind, CurrentItem) = "accept"
    /\ ~CurrentItem.complete
    /\ faults < MaxFaults
    /\ faults' = faults + 1
    /\ w' = IF status = 400
            THEN NextItem([w EXCEPT !.summary.detail_bad_request_failures = @ + 1,
                                    !.summary.skipped_entities = Append(@, Skipped(CurrentItem.id, "detail_bad_request", 0, 0, "None"))])
            ELSE [w EXCEPT !.pc = "except", !.error = "http_error"]
    /\ UNCHANGED <<store, ckpt, rec, runs, p, client, recent, remote, dup>>

\* insert(...).on_conflict_do_nothing: a stored row is left as it is.
UpsertKeepsExisting(table, row) == [i \in DOMAIN table \cup {row.id} |-> IF i \in DOMAIN table THEN table[i] ELSE row]

\* ------------------------------------------------- worker: transactions
\* insert(...).on_conflict_do_update(index_elements=[id]) for one row.
Upsert(table, row) == [i \in DOMAIN table \cup {row.id} |-> IF i = row.id THEN row ELSE table[i]]

\* A page commit that loses the last row of the page.
RECURSIVE UpsertAllButLast(_, _)
UpsertAllButLast(table, rows) == IF Len(rows) <= 1 THEN table ELSE UpsertAllButLast(Upsert(table, Head(rows)), Tail(rows))

RECURSIVE UpsertAll(_, _)
UpsertAll(table, rows) == IF rows = <<>> THEN table ELSE UpsertAll(Upsert(table, Head(rows)), Tail(rows))

\* A checkpoint write that never lowers the stored page or id.
BatchCheckpointGuarded(c, rows, current_page, max_synced_at, max_id) ==
    LET c0 == [_get_or_create_checkpoint(c) EXCEPT !.last_cursor = IF @ > current_page THEN @ ELSE current_page, !.status = "running", !.failed = FALSE, !.message = "None"]
    IN IF rows # <<>> THEN [c0 EXCEPT !.last_synced_at = max_synced_at, !.last_id = IF @ > max_id THEN @ ELSE max_id] ELSE c0

\* The checkpoint as _persist_batch leaves it.
BatchCheckpoint(c, rows, current_page, max_synced_at, max_id) ==
    LET c0 == [_get_or_create_checkpoint(c) EXCEPT !.last_cursor = current_page, !.status = "running", !.failed = FALSE, !.message = "None"]
    IN IF rows # <<>> THEN [c0 EXCEPT !.last_synced_at = max_synced_at, !.last_id = max_id] ELSE c0

\* _persist_batch, the progress callback and the end of the while-loop body.
PersistBatch ==
    /\ w.pc = "persist"
    /\ store' = [store EXCEPT ![w.kind] = UpsertAll(@, w.records_to_upsert)]
    /\ ckpt' = [ckpt EXCEPT ![w.kind] = BatchCheckpoint(@, w.records_to_upsert, w.current_page, w.max_synced_at, w.max_id)]
    /\ LET w1 == [w EXCEPT !.progress = Append(@, <<w.summary.pages_seen, w.total_pages>>), !.records_to_upsert = <<>>]
       IN w' = IF w.kind # "customers" /\ w.stop_after_page
               THEN [w1 EXCEPT !.pc = "complete"]
               ELSE IF w.total_pages # NoneVal /\ w.current_page >= w.total_pages
               THEN [w1 EXCEPT !.pc = "complete"]
               ELSE [w1 EXCEPT !.pc = "list", !.current_page = @ + 1]
    /\ UNCHANGED <<rec, runs, faults, p, client, recent, remote, dup>>

\* _persist_batch failing inside its session_scope: the session is rolled
\* back, and the error reaches the except clause of the run.
PersistBatchError ==
    /\ w.pc = "persist"
    /\ faults < MaxFaults
    /\ faults' = faults + 1
    /\ w' = [w EXCEPT !.pc = "except", !.error = "db_error"]
    /\ UNCHANGED <<store, ckpt, rec, runs, p, client, recent, remote, dup>>

\* The checkpoint as _mark_checkpoint_completed leaves it.
CompletedCheckpoint(c, current_page, max_synced_at, max_id) ==
    [_get_or_create_checkpoint(c) EXCEPT !.last_cursor = current_page, !.last_synced_at = max_synced_at, !.last_id = max_id,
                                          !.status = "completed", !.failed = FALSE, !.message = "None"]

\* _mark_checkpoint_completed and the return of the summary.
MarkCheckpointCompleted ==
    /\ w.pc = "complete"
    /\ ckpt' = [ckpt EXCEPT ![w.kind] = CompletedCheckpoint(@, w.current_page, w.max_synced_at, w.max_id)]
    /\ w' = [w EXCEPT !.pc = "idle", !.outcome = "returned"]
    /\ UNCHANGED <<store, rec, runs, faults, p, client, recent, remote, dup>>

\* A failure handler that stores the message and leaves the status alone.
FailedCheckpointKeepsStatus(c, current_page, error) ==
    [_get_or_create_checkpoint(c) EXCEPT !.last_cursor = current_page, !.failed = TRUE, !.message = error]

\* The checkpoint as _mark_checkpoint_failed leaves it.
FailedCheckpoint(c, current_page, error) ==
    [_get_or_create_checkpoint(c) EXCEPT !.last_cursor = current_page, !.failed = TRUE, !.status = "failed", !.message = error]

\* except Exception: _mark_checkpoint_failed, then raise.
MarkCheckpointFailed ==
    /\ w.pc = "except"
    /\ ckpt' = [ckpt EXCEPT ![w.kind] = FailedCheckpoint(@, w.current_page, w.error)]
    /\ w' = [w EXCEPT !.pc = "idle", !.outcome = "raised"]
    /\ UNCHANGED <<store, rec, runs, faults, p, client, recent, remote, dup>>

\* ------------------------------------------------- dependency recovery
Frame(entity_type, entity_id) == [entity_type |-> entity_type, entity_id |-> entity_id, record |-> NotFound]

\* A retry loop that tests attempts <= max_attempts.
AttemptOnceMore ==
    /\ rec.pc = "attempt"
    /\ rec' = IF rec.attempts <= rec.max_attempts
              THEN [rec EXCEPT !.pc = "recover", !.attempts = @ + 1, !.visited = {}, !.writes = 0, !.fetches = 0,
                               !.stack = <<Frame(rec.entity_type, rec.entity_id)>>]
              ELSE [rec EXCEPT !.pc = "returned", !.outcome = [succeeded |-> FALSE, attempts |-> rec.attempts, error |-> rec.last_error]]
    /\ UNCHANGED <<store, ckpt, w, runs, faults, p, client, recent, remote, dup>>

\* A retry loop whose ensure calls share one visited set.
AttemptKeepsVisited ==
    /\ rec.pc = "attempt"
    /\ rec' = IF rec.attempts < rec.max_attempts
              THEN [rec EXCEPT !.pc = "recover", !.attempts = @ + 1, !.writes = 0, !.fetches = 0,
                               !.stack = <<Frame(rec.entity_type, rec.entity_id)>>]
              ELSE [rec EXCEPT !.pc = "returned", !.outcome = [succeeded |-> FALSE, attempts |-> rec.attempts, error |-> rec.last_error]]
    /\ UNCHANGED <<store, ckpt, w, runs, faults, p, client, recent, remote, dup>>

\* The while-loop of attempt_dependency_recovery: one more resolver.ensure,
\* or the failed outcome once max_attempts are used up.
AttemptDependencyRecovery ==
    /\ rec.pc = "attempt"
    /\ rec' = IF rec.attempts < rec.max_attempts
              THEN [rec EXCEPT !.pc = "recover", !.attempts = @ + 1, !.visited = {}, !.writes = 0, !.fetches = 0,
                               !.stack = <<Frame(rec.entity_type, rec.entity_id)>>]
              ELSE [rec EXCEPT !.pc = "returned", !.outcome = [succeeded |-> FALSE, attempts |-> rec.attempts, error |-> rec.last_error]]
    /\ UNCHANGED <<store, ckpt, w, runs, faults, p, client, recent, remote, dup>>

\* _extract_dependencies
_extract_dependencies(entity_type, record) ==
    CASE entity_type = "orders" -> <<[kind |-> "customers", id |-> record.dep]>>
      [] entity_type = "samples" -> <<[kind |-> "orders", id |-> record.dep]>>
      [] entity_type = "tests" -> <<[kind |-> "samples", id |-> record.dep]>>
      [] OTHER -> <<>>

\* ensure() catching a RecoveryError: EnsureResult(False, error).
EnsureFailed(r, error) ==
    IF r.caller = "ensure"
    THEN [r EXCEPT !.pc = "returned", !.stack = <<>>, !.last_error = error, !.outcome = [succeeded |-> FALSE, attempts |-> 1, error |-> error]]
    ELSE [r EXCEPT !.pc = "attempt", !.stack = <<>>, !.last_error = error]

\* A _recover call returning to its caller: to the _persist_record of the
\* frame that recursed into it, or out of ensure with EnsureResult(True).
RecoverReturned(r) ==
    LET rest == SubSeq(r.stack, 1, Len(r.stack) - 1)
    IN IF rest = <<>>
       THEN [r EXCEPT !.pc = "returned", !.stack = <<>>, !.outcome = [succeeded |-> TRUE, attempts |-> r.attempts, error |-> "None"]]
       ELSE [r EXCEPT !.pc = "persist", !.stack = rest]

\* A lookup that finds no entity locally.
NeverExists(entity_type, entity_id) == FALSE

\* _exists
_exists(entity_type, entity_id) == entity_id \in DOMAIN store[entity_type]

\* A _recover that stores the fetched record before it turns to the
\* record's dependency.
RecoverPersistFirst ==
    /\ rec.pc = "recover"
    /\ LET f == rec.stack[Len(rec.stack)]
           key == <<f.entity_type, f.entity_id>>
           r0 == [rec EXCEPT !.visited = @ \cup {key}]
           data == RemoteFetch(f.entity_type, f.entity_id)
           r1 == [r0 EXCEPT !.fetches = @ + 1]
           deps == _extract_dependencies(f.entity_type, data)
           r2 == [r1 EXCEPT !.stack[Len(rec.stack)].record = data]
       IN IF key \notin rec.visited /\ ~_exists(f.entity_type, f.entity_id) /\ data # NotFound /\ deps # <<>>
          THEN /\ store' = [store EXCEPT ![f.entity_type] = Upsert(@, Row(data))]
               /\ rec' = IF Head(deps).id = 0 THEN EnsureFailed([r1 EXCEPT !.writes = @ + 1], "missing_dependency_id")
                         ELSE [r2 EXCEPT !.writes = @ + 1, !.stack = Append(@, Frame(Head(deps).kind, Head(deps).id))]
          ELSE /\ store' = store
               /\ rec' = IF key \in rec.visited THEN EnsureFailed(rec, "cyclic_dependency")
                         ELSE IF _exists(f.entity_type, f.entity_id) THEN RecoverReturned(r0)
                         ELSE IF data = NotFound THEN EnsureFailed(r1, "not_found_remote")
                         ELSE [r2 EXCEPT !.pc = "persist"]
    /\ UNCHANGED <<ckpt, w, runs, faults, p, client, recent, remote, dup>>

\* _recover up to its recursive call or its _persist_record.
Recover ==
    /\ rec.pc = "recover"
    /\ LET f == rec.stack[Len(rec.stack)]
           key == <<f.entity_type, f.entity_id>>
           r0 == [rec EXCEPT !.visited = @ \cup {key}]
           data == RemoteFetch(f.entity_type, f.entity_id)
           r1 == [r0 EXCEPT !.fetches = @ + 1]
       IN rec' = IF key \in rec.visited THEN EnsureFailed(rec, "cyclic_dependency")
                 ELSE IF _exists(f.entity_type, f.entity_id) THEN RecoverReturned(r0)
                 ELSE IF data = NotFound THEN EnsureFailed(r1, "not_found_remote")
                 ELSE LET deps == _extract_dependencies(f.entity_type, data)
                          r2 == [r1 EXCEPT !.stack[Len(rec.stack)].record = data]
                      IN IF deps = <<>> THEN [r2 EXCEPT !.pc = "persist"]
                         ELSE IF Head(deps).id = 0 THEN EnsureFailed(r1, "missing_dependency_id")
                         ELSE [r2 EXCEPT !.stack = Append(@, Frame(Head(deps).kind, Head(deps).id))]
    /\ UNCHANGED <<store, ckpt, w, runs, faults, p, client, recent, remote, dup>>

\* client.fetch_<kind> raising httpx.HTTPStatusError inside _recover: ensure
\* catches RecoveryError only, so the error leaves ensure and
\* attempt_dependency_recovery and reaches the caller.
RecoverFetchError ==
    /\ rec.pc = "recover"
    /\ LET f == rec.stack[Len(rec.stack)]
       IN /\ <<f.entity_type, f.entity_id>> \notin rec.visited
          /\ ~_exists(f.entity_type, f.entity_id)
    /\ faults < MaxFaults
    /\ faults' = faults + 1
    /\ rec' = [rec EXCEPT !.pc = "idle", !.stack = <<>>, !.fetches = @ + 1, !.last_error = "http_error", !.outcome = [succeeded |-> FALSE, attempts |-> rec.attempts, error |-> "raised"]]
    /\ w' = IF rec.caller = "worker" THEN [w EXCEPT !.pc = "except", !.error = "http_error"] ELSE w
    /\ UNCHANGED <<store, ckpt, runs, p, client, recent, remote, dup>>

\* The checkpoint as _update_checkpoint leaves it.
_update_checkpoint(c, record) ==
    LET c0 == _get_or_create_checkpoint(c)
        c1 == IF c0.last_id = NoneVal \/ record.id > c0.last_id
              THEN [c0 EXCEPT !.last_id = record.id, !.last_synced_at = record.created]
              ELSE c0
    IN [c1 EXCEPT !.status = "completed", !.failed = FALSE, !.message = "Recovered on demand"]

\* _persist_record of the innermost pending _recover, and its return.
PersistRecord ==
    /\ rec.pc = "persist"
    /\ LET f == rec.stack[Len(rec.stack)]
       IN /\ store' = [store EXCEPT ![f.entity_type] = Upsert(@, Row(f.record))]
          /\ ckpt' = [ckpt EXCEPT ![f.entity_type] = _update_checkpoint(@, f.record)]
    /\ rec' = RecoverReturned([rec EXCEPT !.writes = @ + 1])
    /\ UNCHANGED <<w, runs, faults, p, client, recent, remote, dup>>

\* A caller other than a worker calls ensure(entity_type, entity_id).
EnsureIds == {1, 2, 3, 9}

EnsureCall(entity_type, entity_id) ==
    /\ w.pc = "idle" /\ rec.pc = "idle"
    /\ runs < MaxRuns
    /\ runs' = runs + 1
    /\ rec' = [IdleRecovery EXCEPT !.pc = "recover", !.caller = "ensure", !.entity_type = entity_type, !.entity_id = entity_id,
                                  !.max_attempts = 1, !.attempts = 1, !.stack = <<Frame(entity_type, entity_id)>>]
    /\ w' = [w EXCEPT !.outcome = "none"]
    /\ UNCHANGED <<store, ckpt, faults, p, client, recent, remote, dup>>

EnsureReturn ==
    /\ rec.pc = "returned"
    /\ rec.caller = "ensure"
    /\ rec' = [rec EXCEPT !.pc = "idle"]
    /\ UNCHANGED <<store, ckpt, w, runs, faults, p, client, recent, remote, dup>>

Next ==
    \/ \E kind \in Kinds, m \in RunModes, ps \in PageSizes, rs \in BOOLEAN : SyncStart(kind, m.full_refresh, ps, m.start_datetime, m.end_datetime, m.ignore_checkpoint, rs)
    \/ ListPage
    \/ \E status \in {400, 500} : ListPageError(status)
    \/ ItemPre
    \/ DepStep
    \/ RecoveryReturn
    \/ ItemPost
    \/ \E status \in {400, 500} : DetailFetchError(status)
    \/ PersistBatch
    \/ PersistBatchError
    \/ MarkCheckpointCompleted
    \/ MarkCheckpointFailed
    \/ AttemptDependencyRecovery
    \/ Recover
    \/ RecoverFetchError
    \/ PersistRecord
    \/ \E entity_type \in Kinds, entity_id \in EnsureIds : EnsureCall(entity_type, entity_id)
    \/ EnsureReturn

Spec == Init /\ [][Next]_vars

\* ------------------------------------------------- pipeline orchestrator
\* Names a caller may list in entities: the five kinds and one that
\* _SYNC_HANDLERS does not know.
EntityNames == Kinds \cup {"widgets"}

\* The longest entities list a caller passes.
MaxEntities == 3

\* Progress reports one handler makes through its callback.
MaxProgress == 1

EntityLists == UNION { [1..n -> EntityNames] : n \in 0..MaxEntities }

\* The second loop of _resolve_entity_sequence: the listed order, without
\* duplicates.
RECURSIVE Ordered(_, _)
Ordered(normalized, seen) ==
    IF normalized = <<>> THEN <<>>
    ELSE IF Head(normalized) \in seen THEN Ordered(Tail(normalized), seen)
    ELSE <<Head(normalized)>> \o Ordered(Tail(normalized), seen \cup {Head(normalized)})

\* A resolution that puts the listed entities in the default order.
InDefaultOrder(given, entities) == SelectSeq(<<"customers", "orders", "samples", "batches", "tests">>, LAMBDA e : ~given \/ e \in Range(entities))

\* _resolve_entity_sequence for entities that name known handlers only
\* (given = FALSE stands for entities=None).
_resolve_entity_sequence(given, entities) == IF ~given THEN DEFAULT_SYNC_SEQUENCE ELSE Ordered(entities, {})

EntityResult(entity, succeeded, error_message) == [entity |-> entity, succeeded |-> succeeded, error_message |-> error_message]

\* The arguments of sync_all_entities that only pass through to the handlers.
PassThrough(start_datetime, end_datetime, ignore_checkpoint, dependency_resolver, dependency_max_attempts) == [start_datetime |-> start_datetime, end_datetime |-> end_datetime, ignore_checkpoint |-> ignore_checkpoint, dependency_resolver |-> dependency_resolver, dependency_max_attempts |-> dependency_max_attempts]

Defaults == PassThrough(NoneVal, NoneVal, FALSE, 0, 3)

\* sync_all_entities up to its for-loop; an unknown entity name raises
\* ValueError out of _resolve_entity_sequence.
SyncAllEnter(given, entities, full_refresh, page_size, has_callback, raise_on_error, pass) ==
    IF given /\ \E i \in 1..Len(entities) : entities[i] \notin Kinds
    THEN [IdlePipeline EXCEPT !.outcome = "ValueError", !.given = entities]
    ELSE [IdlePipeline EXCEPT !.pc = "loop", !.sequence = _resolve_entity_sequence(given, entities), !.idx = 1,
                              !.full_refresh = full_refresh, !.page_size = page_size, !.has_callback = has_callback,
                              !.raise_on_error = raise_on_error, !.given = IF given THEN entities ELSE <<"None">>,
                              !.start_datetime = pass.start_datetime, !.end_datetime = pass.end_datetime,
                              !.ignore_checkpoint = pass.ignore_checkpoint, !.dependency_resolver = pass.dependency_resolver,
                              !.dependency_max_attempts = pass.dependency_max_attempts]

\* A direct call of sync_all_entities, the pass-through arguments left at
\* their defaults.
SyncAllStart(given, entities, full_refresh, page_size, has_callback, raise_on_error) ==
    /\ p.pc = "idle"
    /\ p.outcome = "none"
    /\ p' = SyncAllEnter(given, entities, full_refresh, page_size, has_callback, raise_on_error, Defaults)
    /\ UNCHANGED <<workerVars, client, recent, remote, dup>>

sync_lookback_days == 7

\* datetime.utcnow() in days, and the lookback_days arguments tried.
UtcNow == {20}

LookbackDays == {NoneVal, 0 - 2, 0, 5}

\* A lookback taken as given, negative or not.
LookbackUnclamped(configured_lookback) == configured_lookback

LookbackValue(configured_lookback) == IF configured_lookback < 0 THEN 0 ELSE configured_lookback

\* sync_recent_entities up to and into its call of sync_all_entities: the
\* window, the one EntityRecoveryService, then the call.
SyncRecentStart(lookback_days, end_dt, given, entities, page_size, has_callback, raise_on_error) ==
    /\ p.pc = "idle"
    /\ p.outcome = "none"
    /\ recent.pc = "idle"
    /\ LET configured_lookback == IF lookback_days # NoneVal THEN lookback_days ELSE sync_lookback_days
           start_dt == end_dt - LookbackValue(configured_lookback)
           resolver == recent.created + 1
       IN /\ recent' = [recent EXCEPT !.pc = "running", !.lookback_days = lookback_days, !.created = @ + 1, !.resolver = resolver, !.invoked = @ + 1]
          /\ p' = SyncAllEnter(given, entities, FALSE, page_size, has_callback, raise_on_error, PassThrough(start_dt, end_dt, TRUE, resolver, 3))
    /\ UNCHANGED <<workerVars, client, remote, dup>>

\* The finally clause of sync_recent_entities, reached when
\* sync_all_entities has returned or raised.
SyncRecentFinally ==
    /\ recent.pc = "running"
    /\ p.pc = "idle"
    /\ p.outcome # "none"
    /\ recent' = [recent EXCEPT !.pc = "done", !.closed = @ + 1, !.outcome = IF p.outcome = "returned" THEN "returned" ELSE "raised"]
    /\ UNCHANGED <<workerVars, client, p, remote, dup>>

\* The for-loop reaching its next entity: handler(...) is called with the
\* caller's arguments and the wrapped progress callback.
InvokeHandler ==
    /\ p.pc = "loop"
    /\ p.idx <= Len(p.sequence)
    /\ p' = [p EXCEPT !.pc = "handler", !.reported = 0,
                      !.calls = Append(@, [entity |-> p.sequence[p.idx], full_refresh |-> p.full_refresh, page_size |-> p.page_size,
                                           progress_callback |-> IF p.has_callback THEN p.sequence[p.idx] ELSE "None",
                                           start_datetime |-> p.start_datetime, end_datetime |-> p.end_datetime, ignore_checkpoint |-> p.ignore_checkpoint,
                                           dependency_resolver |-> p.dependency_resolver, dependency_max_attempts |-> p.dependency_max_attempts])]
    /\ UNCHANGED <<workerVars, client, recent, remote, dup>>

\* The running handler calls the progress callback it was given:
\* _wrap_progress_callback passes the report on under the entity's name.
HandlerProgress ==
    /\ p.pc = "handler"
    /\ p.reported < MaxProgress
    /\ LET cb == p.calls[Len(p.calls)].progress_callback
       IN /\ cb # "None"
          /\ p' = [p EXCEPT !.reported = @ + 1, !.events = Append(@, [entity |-> cb, during |-> p.sequence[p.idx]])]
    /\ UNCHANGED <<workerVars, client, recent, remote, dup>>

\* The handler returns its summary: the result is appended and the loop goes on.
HandlerReturn ==
    /\ p.pc = "handler"
    /\ p' = [p EXCEPT !.pc = "loop", !.idx = @ + 1, !.results = Append(@, EntityResult(p.sequence[p.idx], TRUE, "None"))]
    /\ UNCHANGED <<workerVars, client, recent, remote, dup>>

\* A for-loop that goes on to the next entity after a failure.
ContinueOnFailure == FALSE

\* Whether the for-loop is left after a handler raised.
BreakOnFailure == TRUE

\* The handler raises: except Exception records the failure and breaks.
HandlerRaise ==
    /\ p.pc = "handler"
    /\ p' = [p EXCEPT !.pc = IF BreakOnFailure THEN "finish" ELSE "loop", !.idx = IF BreakOnFailure THEN @ ELSE @ + 1,
                      !.failed_entity = p.sequence[p.idx], !.error_message = "error:" \o p.sequence[p.idx],
                      !.results = Append(@, EntityResult(p.sequence[p.idx], FALSE, "error:" \o p.sequence[p.idx]))]
    /\ UNCHANGED <<workerVars, client, recent, remote, dup>>

\* The statements after the for-loop: the SyncRunSummary, then the raise of
\* SyncOrchestrationError or the return of the summary.
SyncAllFinish ==
    /\ \/ p.pc = "finish"
       \/ p.pc = "loop" /\ p.idx > Len(p.sequence)
    /\ LET succeeded == p.failed_entity = "None" /\ Len(p.results) = Len(p.sequence)
       IN p' = [p EXCEPT !.pc = "idle", !.succeeded = succeeded,
                         !.outcome = IF p.failed_entity # "None" /\ p.raise_on_error THEN "SyncOrchestrationError" ELSE "returned"]
    /\ UNCHANGED <<workerVars, client, recent, remote, dup>>

PipelineNext ==
    \/ p.pc = "idle" /\ p.outcome = "none" /\ \E given \in BOOLEAN, entities \in EntityLists, fr \in BOOLEAN, ps \in {NoneVal, 25}, cb \in BOOLEAN, roe \in BOOLEAN : SyncAllStart(given, entities, fr, ps, cb, roe)
    \/ p.pc = "idle" /\ p.outcome = "none" /\ \E lookback_days \in LookbackDays, end_dt \in UtcNow, given \in BOOLEAN, entities \in EntityLists, ps \in {NoneVal, 25}, cb \in BOOLEAN, roe \in BOOLEAN : SyncRecentStart(lookback_days, end_dt, given, entities, ps, cb, roe)
    \/ SyncRecentFinally
    \/ InvokeHandler
    \/ HandlerProgress
    \/ HandlerReturn
    \/ HandlerRaise
    \/ SyncAllFinish

PipelineSpec == Init /\ [][PipelineNext]_vars

\* ------------------------------------------------- API client (clients/qbench.py)
_DEFAULT_TOKEN_LIFETIME_SECONDS == 3600

_TOKEN_REFRESH_MARGIN_SECONDS == 60

\* Largest max_retries passed to _request, operations per behaviour, and the
\* latest time the clock advances to.
MaxRetries == 2

MaxOps == 1

MaxTime == 60

ClockSteps == {60}

BackoffFactors == {2}

ClientOps == {"list_customers", "list_orders", "list_samples", "list_batches", "list_tests", "fetch_customer", "fetch_order", "fetch_sample", "fetch_batch", "fetch_test"}

FetchOps == {"fetch_customer", "fetch_order", "fetch_sample", "fetch_batch", "fetch_test"}

\* Operations that take include_raw_worksheet_data.
RawOps == {"list_batches", "list_tests", "fetch_batch", "fetch_test"}

\* Operations that repeat a 400 with the legacy parameter name.
LegacyOps == {"list_tests", "fetch_test"}

\* Retry-After header values: absent, empty, numbers, an HTTP date.
RetryAfterHeaders == {"None", "", "0", "3", "Wed, 21 Oct 2026 07:28:00 GMT"}

ApiResponses ==
    {Plain(200), Plain(404), Plain(500), Plain(401), Plain(400)}
    \cup {Response(400, "json", "invalid_grant", "", "None")}
    \cup {Response(400, "json", "invalid_request", d, "None") : d \in {"Bearer: Invalid Authorization header format", "Missing parameter"}}
    \cup {Response(429, "text", "", "", h) : h \in RetryAfterHeaders}

\* The "expires_in" member of a token response: a number, a string, or absent.
TokenPayloads ==
    {[type |-> "int", text |-> "", value |-> v] : v \in {0, 30, 120}}
    \cup {[type |-> "str", text |-> "120", value |-> 0], [type |-> "str", text |-> "soon", value |-> 0]}
    \cup {[type |-> "none", text |-> "", value |-> 0]}

\* float(text): the value of a numeric string, NoneVal for a ValueError.
Float(text) ==
    CASE text = "0" -> 0
      [] text = "3" -> 3
      [] text = "120" -> 120
      [] OTHER -> NoneVal

RECURSIVE Pow(_, _)
Pow(b, n) == IF n = 0 THEN 1 ELSE b * Pow(b, n - 1)

_calculate_token_expiry(token_payload, now) ==
    LET expires_in ==
            CASE token_payload.type = "int" -> token_payload.value
              [] token_payload.type = "str" -> Float(token_payload.text)
              [] OTHER -> NoneVal
    IN  IF expires_in = NoneVal \/ expires_in <= 0
        THEN now + _DEFAULT_TOKEN_LIFETIME_SECONDS
        ELSE now + expires_in

\* _authenticate: one token request; the new token replaces the old one.
\* The token endpoint answers every request of a behaviour with the same
\* "expires_in", kept in token_payload as the number the first answer was
\* read as.
_authenticate(s, cause) ==
    [s EXCEPT !.token_expires_at = _calculate_token_expiry(s.token_payload, s.now),
              !.token_payload = [type |-> "int", text |-> "", value |-> _calculate_token_expiry(s.token_payload, 0)],
              !.fresh = @ + 1,
              !.auths = [@ EXCEPT ![cause] = @ + 1]]

\* QBenchClient.__init__
ClientCreate(token_payload) ==
    /\ client.pc = "absent"
    /\ client' = [_authenticate([client EXCEPT !.token_payload = token_payload], "refresh") EXCEPT !.pc = "idle", !.auths = NoAuths, !.fresh = 0]
    /\ UNCHANGED <<workerVars, p, recent, remote, dup>>

\* time.time() moving on: between two operations, and between two rounds of
\* the loop of _request (where it sleeps).  The clock is an input of its own,
\* as in tests/test_qbench_client_auth.py; the sleeps are kept in slept.
Tick(d) ==
    /\ client.pc \in {"idle", "check"} \/ (client.pc = "done" /\ client.ops < MaxOps)
    /\ client.now + d <= MaxTime
    /\ client' = [client EXCEPT !.now = @ + d]
    /\ UNCHANGED <<workerVars, p, recent, remote, dup>>

\* The locals of _request at its first line.
EnterRequest(s, legacy) ==
    [s EXCEPT !.pc = "check", !.legacy = legacy, !.attempt = 0, !.delay = 1, !.reauth_attempts = 0, !.calls = 0, !.auths = NoAuths, !.seen = NoSeen, !.slept = NoneVal, !.sent = NoSent, !.fresh = 0, !.due = FALSE, !.response = Plain(0)]

\* A list_* or fetch_* call, up to its call of _request.
ClientCall(op, include_raw, max_retries, backoff_factor) ==
    /\ client.pc \in {"idle", "done"}
    /\ client.ops < MaxOps
    /\ include_raw => op \in RawOps
    /\ client' = [EnterRequest(client, FALSE) EXCEPT !.op = op, !.include_raw = include_raw, !.max_retries = max_retries, !.backoff_factor = backoff_factor, !.ops = @ + 1, !.result = "none"]
    /\ UNCHANGED <<workerVars, p, recent, remote, dup>>

\* A lifetime test that lets the token run to the margin itself.
TokenDueLate(s) == s.now > s.token_expires_at - _TOKEN_REFRESH_MARGIN_SECONDS

TokenDue(s) == ~(s.now < s.token_expires_at - _TOKEN_REFRESH_MARGIN_SECONDS)

\* _ensure_token_valid at the top of the loop.
_ensure_token_valid ==
    /\ client.pc = "check"
    /\ IF client.token_expires_at = NoneVal
       THEN client' = [client EXCEPT !.pc = "send", !.due = FALSE, !.fresh = 0]
       ELSE IF ~TokenDue(client)
       THEN client' = [client EXCEPT !.pc = "send", !.due = FALSE, !.fresh = 0]
       ELSE client' = [_authenticate([client EXCEPT !.fresh = 0], "refresh") EXCEPT !.pc = "send", !.due = TRUE]
    /\ UNCHANGED <<workerVars, p, recent, remote, dup>>

retry_due_to_auth(response) ==
    /\ response.status = 400
    /\ response.body = "json"
    /\ \/ response.error = "invalid_request" /\ response.error_description \in {"Bearer: Invalid Authorization header format", "Invalid Authorization header format"}
       \/ response.error = "invalid_grant"

sleep_seconds(response, delay) ==
    IF response.retry_after \in {"None", ""}
    THEN delay
    ELSE IF Float(response.retry_after) = NoneVal THEN delay ELSE Float(response.retry_after)

Saw(s, response) ==
    [s EXCEPT !.response = response,
              !.calls = @ + 1,
              !.seen = [@ EXCEPT !.s401 = @ + (IF response.status = 401 THEN 1 ELSE 0),
                                 !.s400auth = @ + (IF retry_due_to_auth(response) THEN 1 ELSE 0),
                                 !.s429 = @ + (IF response.status = 429 THEN 1 ELSE 0)]]

\* A limit test that lets one more 429 through.
RetryPastLimit(s) == s.attempt > s.max_retries

RetryAtLimit(s) == s.attempt + 1 > s.max_retries

\* A 429 retry that does not count itself.
RateLimitUncounted(s) ==
    IF s.response.status # 429
    THEN [s EXCEPT !.pc = "returned"]
    ELSE IF RetryAtLimit(s)
    THEN [s EXCEPT !.pc = "returned", !.attempt = @ + 1]
    ELSE [s EXCEPT !.pc = "check",
                   !.slept = sleep_seconds(s.response, s.delay),
                   !.delay = @ * s.backoff_factor]

\* Lines 205-225: anything but a 429 is returned; a 429 is retried after a
\* sleep until attempt exceeds max_retries.
RateLimit(s) ==
    IF s.response.status # 429
    THEN [s EXCEPT !.pc = "returned"]
    ELSE IF RetryAtLimit(s)
    THEN [s EXCEPT !.pc = "returned", !.attempt = @ + 1]
    ELSE [s EXCEPT !.pc = "check",
                   !.attempt = @ + 1,
                   !.slept = sleep_seconds(s.response, s.delay),
                   !.delay = @ * s.backoff_factor]

ReauthAtLimit(s) == s.reauth_attempts >= s.max_retries

\* Line 159 and the dispatch on its response.
SendRequest(response) ==
    /\ client.pc = "send"
    /\ LET s == [Saw(client, response) EXCEPT !.sent = [checked |-> TRUE, due |-> client.due, fresh |-> client.fresh]]
       IN  client' = IF response.status = 401
                THEN [s EXCEPT !.pc = "unauthorized"]
                ELSE IF retry_due_to_auth(response)
                THEN IF ReauthAtLimit(s)
                     THEN [s EXCEPT !.pc = "returned"]
                     ELSE [s EXCEPT !.pc = "bad_request"]
                ELSE RateLimit(s)
    /\ UNCHANGED <<workerVars, p, recent, remote, dup>>

\* Line 161: _authenticate after a 401.
Reauthenticate401 ==
    /\ client.pc = "unauthorized"
    /\ client' = [_authenticate([client EXCEPT !.fresh = 0], "on401") EXCEPT !.pc = "replay"]
    /\ UNCHANGED <<workerVars, p, recent, remote, dup>>

\* A limit test that allows one more re-authentication.
ReplayPastLimit(s) == s.reauth_attempts > s.max_retries

ReplayAtLimit(s) == s.reauth_attempts + 1 > s.max_retries

\* Lines 162-168: the replay and what follows it.
ReplayRequest(response) ==
    /\ client.pc = "replay"
    /\ LET s == [Saw(client, response) EXCEPT !.sent = [checked |-> FALSE, due |-> FALSE, fresh |-> client.fresh]]
       IN  client' = IF ReplayAtLimit(s)
                THEN [s EXCEPT !.pc = "returned", !.reauth_attempts = @ + 1]
                ELSE IF response.status = 401
                THEN [s EXCEPT !.pc = "check", !.reauth_attempts = @ + 1]
                ELSE RateLimit([s EXCEPT !.reauth_attempts = @ + 1])
    /\ UNCHANGED <<workerVars, p, recent, remote, dup>>

\* Lines 201-204: _authenticate after a 400 that reports the token, then a
\* sleep of one second.
Reauthenticate400 ==
    /\ client.pc = "bad_request"
    /\ client' = [_authenticate([client EXCEPT !.fresh = 0], "on400") EXCEPT !.pc = "check", !.reauth_attempts = @ + 1, !.slept = 1]
    /\ UNCHANGED <<workerVars, p, recent, remote, dup>>

\* No second request with the legacy parameter.
NoLegacyRetry(s) == FALSE

LegacyRetry(s) == s.op \in LegacyOps /\ s.response.status = 400 /\ s.include_raw /\ ~s.legacy

\* What the operation does with the response _request returned.
OperationResult(s) ==
    IF s.op \in FetchOps /\ s.response.status = 404 THEN "None"
    ELSE IF s.response.status >= 400 THEN "HTTPStatusError"
    ELSE "json"

OperationReturn ==
    /\ client.pc = "returned"
    /\ client' = IF LegacyRetry(client)
            THEN EnterRequest(client, TRUE)
            ELSE [client EXCEPT !.pc = "done", !.result = OperationResult(client)]
    /\ UNCHANGED <<workerVars, p, recent, remote, dup>>

ClientNext ==
    \/ \E token_payload \in TokenPayloads : ClientCreate(token_payload)
    \/ \E d \in ClockSteps : Tick(d)
    \/ client.pc \in {"idle", "done"} /\ \E op \in ClientOps, include_raw \in BOOLEAN, max_retries \in 0..MaxRetries, backoff_factor \in BackoffFactors : ClientCall(op, include_raw, max_retries, backoff_factor)
    \/ _ensure_token_valid
    \/ \E response \in ApiResponses : SendRequest(response)
    \/ Reauthenticate401
    \/ \E response \in ApiResponses : ReplayRequest(response)
    \/ Reauthenticate400
    \/ OperationReturn

ClientSpec == Init /\ [][ClientNext]_vars

\* ------------------------------------------------- the upsert on its own
\* The two ingestion operations, _persist_batch and _persist_record, applied
\* to tables that already hold rows and to payloads whose mutable fields
\* differ from the stored ones.
IngestKinds == {"orders", "samples"}

\* Payloads for the ids 1 and 2, each with two values of its mutable fields.
IngestItems == { Item(i, v, <<>>, <<>>, v, TRUE, TRUE) : i \in {1, 2}, v \in {1, 2} }

\* The tables of an already-populated store: at most one row per id.
IngestTables == { t \in UNION { [S -> {Row(it) : it \in IngestItems}] : S \in SUBSET {1, 2} } : \A i \in DOMAIN t : t[i].id = i }

\* The pages of a list response: no id twice.
IngestPages == { pg \in UNION { [1..n -> IngestItems] : n \in 0..2 } : \A i, j \in DOMAIN pg : i # j => pg[i].id # pg[j].id }

IngestInit ==
    /\ store \in { [k \in Kinds |-> IF k \in IngestKinds THEN t ELSE << >>] : t \in IngestTables }
    /\ ckpt = [k \in Kinds |-> NoCheckpoint]
    /\ w = IdleWorker
    /\ rec = IdleRecovery
    /\ runs = 0
    /\ faults = 0
    /\ p = IdlePipeline
    /\ client = NoClient
    /\ recent = NoRecent
    /\ remote = [k \in Kinds |-> Remote(k)]
    /\ dup = NoDuplicate

RECURSIVE AcceptAll(_, _)
AcceptAll(wr, page) == IF page = <<>> THEN wr ELSE AcceptAll(Accept(wr, Head(page)), Tail(page))

\* A full-refresh run of the worker of kind that has accepted every item of
\* one page and stands before its _persist_batch.
IngestPage(kind, page) ==
    /\ w.pc \in {"idle", "list"}
    /\ runs < MaxRuns
    /\ runs' = runs + 1
    /\ w' = [AcceptAll([IdleWorker EXCEPT !.kind = kind, !.full_refresh = TRUE, !.page_size = API_MAX_PAGE_SIZE,
                                          !.items = page, !.summary.pages_seen = 1], page)
                EXCEPT !.pc = "persist", !.idx = Len(page), !.depq = <<>>]
    /\ UNCHANGED <<store, ckpt, rec, faults, p, client, recent, remote, dup>>

\* An ensure call that has fetched the payload of an entity without
\* dependencies to recover and stands before its _persist_record.
IngestRecord(kind, item) ==
    /\ w.pc = "idle" /\ rec.pc = "idle"
    /\ runs < MaxRuns
    /\ runs' = runs + 1
    /\ rec' = [IdleRecovery EXCEPT !.pc = "persist", !.caller = "ensure", !.entity_type = kind, !.entity_id = item.id,
                                  !.max_attempts = 1, !.attempts = 1, !.visited = {<<kind, item.id>>},
                                  !.stack = <<[Frame(kind, item.id) EXCEPT !.record = item]>>]
    /\ UNCHANGED <<store, ckpt, w, faults, p, client, recent, remote, dup>>

IngestNext ==
    \/ \E kind \in IngestKinds, page \in IngestPages : IngestPage(kind, page)
    \/ \E kind \in IngestKinds, item \in IngestItems : IngestRecord(kind, item)
    \/ PersistBatch
    \/ PersistRecord
    \/ EnsureReturn

IngestSpec == IngestInit /\ [][IngestNext]_vars

\* ------------------------------------------------- the remote system grows
\* The entity a kind gains on the remote system after a run: a higher id and
\* a later creation time than any before it; an order names customer 1, a
\* sample order 1, a test sample 1.
NewItem(kind) == Item(5, IF kind \in {"orders", "samples", "tests"} THEN 1 ELSE 0, <<>>, <<>>, 6, TRUE, TRUE)

\* The entity is created on the remote system between two runs, after a
\* worker run of its kind has completed.
RemoteCreate(kind) ==
    /\ w.pc = "idle" /\ rec.pc = "idle"
    /\ runs < MaxRuns
    /\ ckpt[kind].status = "completed" /\ ckpt[kind].message = "None"
    /\ NewItem(kind) \notin remote[kind]
    /\ remote' = [remote EXCEPT ![kind] = @ \cup {NewItem(kind)}]
    /\ UNCHANGED <<store, ckpt, w, rec, runs, faults, p, client, recent, dup>>

GrowthNext ==
    \/ Next
    \/ \E kind \in Kinds : RemoteCreate(kind)

GrowthSpec == Init /\ [][GrowthNext]_vars

\* ------------------------------------------------- two runs of one kind
\* Two processes run sync_samples at the same time, with nothing between
\* them but the database. Every session_scope block commits as one step; the
\* processes take turns at any point between two steps. w holds the locals
\* of the process that has the processor, dup.w those of the one that waits,
\* and rec is the recovery service of the process that runs.
Higher(a, b) == IF a >= b THEN a ELSE b

Switch ==
    /\ rec.pc = "idle"
    /\ w.pc # "idle" \/ dup.w.pc # "idle"
    /\ w' = dup.w
    /\ dup' = [w |-> w,
               high |-> [last_id |-> Higher(dup.high.last_id, ckpt["samples"].last_id),
                         last_cursor |-> Higher(dup.high.last_cursor, ckpt["samples"].last_cursor)]]
    /\ UNCHANGED <<store, ckpt, rec, runs, faults, p, client, recent, remote>>

DuplicateNext ==
    \/ \E ps \in PageSizes, rs \in BOOLEAN : SyncStart("samples", FALSE, ps, NoneVal, NoneVal, FALSE, rs)
    \/ ListPage
    \/ ItemPre
    \/ DepStep
    \/ RecoveryReturn
    \/ ItemPost
    \/ PersistBatch
    \/ MarkCheckpointCompleted
    \/ AttemptDependencyRecovery
    \/ Recover
    \/ PersistRecord
    \/ Switch

DuplicateSpec == Init /\ [][DuplicateNext]_vars

\* ------------------------------------------------- properties
\* C1: at every reachable state, the intermediate states of a recursive
\* recovery included, every stored order references a stored customer, every
\* stored sample a stored order and every stored test a stored sample.
DependencyOrdering ==
    /\ \A id \in DOMAIN store["orders"] : store["orders"][id].dep \in DOMAIN store["customers"]
    /\ \A id \in DOMAIN store["samples"] : store["samples"][id].dep \in DOMAIN store["orders"]
    /\ \A id \in DOMAIN store["tests"] : store["tests"][id].dep \in DOMAIN store["samples"]

\* A recursive recovery between two of its writes: the order is stored, the
\* sample that needed it is not yet.
DependencyOrderingWitness ==
    /\ rec.pc = "persist"
    /\ rec.writes >= 2
    /\ rec.stack[Len(rec.stack)].entity_type = "samples"
    /\ store["orders"] # << >>

\* C2, for the runs that do not ask for a full refresh (a full refresh
\* clears last_id in its opening transaction): when a worker run has
\* returned or raised, the checkpoint's last_id is not lower than it was
\* before the run, and is not cleared.
LastIdMonotone ==
    (w.pc = "idle" /\ w.outcome \in {"returned", "raised"} /\ ~w.full_refresh /\ w.before.last_id # NoneVal)
        => ckpt[w.kind].last_id >= w.before.last_id

\* The watermark of every kind names a row of that kind.
WatermarkStored == \A k \in Kinds : ckpt[k].last_id # NoneVal => ckpt[k].last_id \in DOMAIN store[k]

\* One step of a worker run, seen from its own table and checkpoint: only
\* the page commit writes them, it writes the rows and the watermark
\* together, and a failing step or the except clause writes neither.
PageUnit ==
    LET k == w.kind
        same == /\ store'[k] = store[k]
                /\ ckpt'[k].last_id = ckpt[k].last_id
                /\ ckpt'[k].last_synced_at = ckpt[k].last_synced_at
    IN /\ w.pc \notin {"idle", "persist", "complete"} => same
       /\ (w.pc = "persist" /\ w'.pc = "except") => same
       /\ (w.pc = "persist" /\ w'.pc # "except" /\ w.records_to_upsert # <<>>) =>
              /\ \A i \in 1..Len(w.records_to_upsert) : w.records_to_upsert[i].id \in DOMAIN store'[k]
              /\ ckpt'[k].last_id = w.max_id
              /\ ckpt'[k].last_id \in DOMAIN store'[k]

\* C3: a page's rows and the checkpoint's last_id are committed together, a
\* non-null last_id names a stored row of its kind, and a run that fails on
\* page p stores no row of page p and leaves last_id and last_synced_at as
\* the last committed page left them.
AtomicPageCommit == []WatermarkStored /\ [][PageUnit]_vars

\* A run that raised on a later page after it had committed an earlier one.
AtomicPageCommitWitness ==
    /\ w.pc = "idle"
    /\ w.outcome = "raised"
    /\ w.summary.pages_seen >= 2
    /\ ckpt[w.kind].last_id # NoneVal
    /\ ckpt[w.kind].last_id # w.before.last_id

\* The position of the first occurrence of e in list.
FirstIndex(list, e) == CHOOSE i \in 1..Len(list) : list[i] = e /\ \A j \in 1..(i - 1) : list[j] # e

\* C4: called without an entity list, sync_all_entities invokes the workers
\* in the order customers, orders, samples, batches, tests, one at a time and
\* each at most once (exactly once when the call returns without a failure),
\* and hands each the caller's full_refresh and page_size and a progress
\* callback that reports under the worker's own name.
DefaultSequenceOrder ==
    p.given = <<"None">> =>
        /\ Len(p.calls) <= 5
        /\ \A i \in 1..Len(p.calls) :
              /\ p.calls[i].entity = <<"customers", "orders", "samples", "batches", "tests">>[i]
              /\ p.calls[i].full_refresh = p.full_refresh
              /\ p.calls[i].page_size = p.page_size
              /\ p.has_callback => p.calls[i].progress_callback = p.calls[i].entity
        /\ Len(p.calls) - Len(p.results) = (IF p.pc = "handler" THEN 1 ELSE 0)
        /\ \A i \in 1..Len(p.events) : p.events[i].entity = p.events[i].during
        /\ (p.outcome = "returned" /\ p.failed_entity = "None") => Len(p.calls) = 5 /\ Len(p.results) = 5

\* A default run that returned after all five workers ran and reported.
DefaultSequenceOrderWitness ==
    /\ p.given = <<"None">>
    /\ p.outcome = "returned"
    /\ p.succeeded
    /\ Len(p.calls) = 5
    /\ Len(p.events) = 5
    /\ p.full_refresh /\ p.page_size = 25

\* C5: after a worker raises no later worker is invoked; the results hold
\* one entry per worker that ran, the last one failed and naming the error;
\* failed_entity and error_message name the failure; the call raises
\* SyncOrchestrationError only with raise_on_error set and returns the
\* summary otherwise; succeeded is true only if every worker of the
\* sequence ran and none failed.
HaltOnFirstFailure ==
    /\ \A i \in 1..Len(p.results) : p.results[i].entity = p.sequence[i]
    /\ p.failed_entity # "None" =>
          /\ p.pc \in {"finish", "idle"}
          /\ Len(p.calls) = Len(p.results)
          /\ p.results[Len(p.results)] = EntityResult(p.failed_entity, FALSE, p.error_message)
          /\ p.error_message # "None"
          /\ \A i \in 1..(Len(p.results) - 1) : p.results[i].succeeded
    /\ p.failed_entity = "None" => \A i \in 1..Len(p.results) : p.results[i].succeeded
    /\ p.outcome = "SyncOrchestrationError" => p.raise_on_error /\ p.failed_entity # "None"
    /\ p.outcome = "returned" =>
          /\ p.failed_entity # "None" => ~p.raise_on_error /\ ~p.succeeded
          /\ p.succeeded <=> (p.failed_entity = "None" /\ Len(p.results) = Len(p.sequence))
          /\ p.succeeded => \A i \in 1..Len(p.sequence) : p.results[i] = EntityResult(p.sequence[i], TRUE, "None")

\* A default run that returned its summary after the third worker raised.
HaltOnFirstFailureWitness ==
    /\ p.given = <<"None">>
    /\ p.outcome = "returned"
    /\ p.failed_entity = "samples"
    /\ Len(p.results) = 3
    /\ Len(p.calls) = 3

UnknownEntries(id) ==
    { i \in 1..Len(w.summary.skipped_entities) :
        /\ w.summary.skipped_entities[i].entity_id = id
        /\ w.summary.skipped_entities[i].reason \in {"unknown_customer", "unknown_order", "unknown_sample", "unknown_test"} }

\* The item would be persisted if its dependencies were there.
OtherwiseAcceptable(item) ==
    /\ PreCheck(w.kind, item) \in {"deps", "post"}
    /\ PostCheck(w.kind, item) = "accept"
    /\ ~\E i \in 1..Len(w.summary.skipped_entities) :
          /\ w.summary.skipped_entities[i].entity_id = item.id
          /\ w.summary.skipped_entities[i].reason = "detail_bad_request"

\* The dependencies of the item that the local tables do not hold.
MissingDependencies(item) ==
    { d \in Range(ItemDependencies(w.kind, item)) : d.id \notin DOMAIN store[d.kind] }

\* The page whose loop has just ended without a stop, in a run that has a
\* recovery service: of its otherwise acceptable items, exactly those with
\* no missing dependency are in records_to_upsert, and each of the others
\* has exactly one skip entry, which names a missing dependency and the
\* attempts made.
SkipAccounting ==
    (w.pc = "persist" /\ w.resolver /\ ~w.stop_after_page) =>
        LET A == { i \in 1..Len(w.items) : OtherwiseAcceptable(w.items[i]) }
            K == { i \in A : MissingDependencies(w.items[i]) # {} }
        IN /\ Len(w.records_to_upsert) = Cardinality(A) - Cardinality(K)
           /\ { w.records_to_upsert[i].id : i \in 1..Len(w.records_to_upsert) } = { w.items[i].id : i \in A \ K }
           /\ \A i \in A \ K : UnknownEntries(w.items[i].id) = {}
           /\ \A i \in K :
                 /\ Cardinality(UnknownEntries(w.items[i].id)) = 1
                 /\ \A e \in UnknownEntries(w.items[i].id) :
                       LET entry == w.summary.skipped_entities[e]
                       IN /\ \E d \in MissingDependencies(w.items[i]) :
                                /\ entry.dependency_id = d.id
                                /\ entry.reason = "unknown_" \o (CASE d.kind = "customers" -> "customer" [] d.kind = "orders" -> "order" [] d.kind = "samples" -> "sample" [] OTHER -> "test")
                          /\ entry.recovery_attempts = MaxAttempts

\* A recovery that gave up makes the worker skip the item and go on.
SkipContinues ==
    (w.pc = "recovering" /\ rec.pc = "returned" /\ ~rec.outcome.succeeded /\ w' # w) =>
        /\ w'.pc \in {"item", "persist"}
        /\ w'.summary.skipped_unknown = w.summary.skipped_unknown + 1
        /\ w'.records_to_upsert = w.records_to_upsert

\* C7: of the n otherwise acceptable items of a page, the k whose dependency
\* is absent locally and cannot be fetched by the recovery service are not
\* persisted and get one unknown_<dependency> skip entry each, with the
\* dependency id and the attempts made; the other n-k are persisted; the
\* skip does not end the run.
SkipAccountingHolds == []SkipAccounting /\ [][SkipContinues]_vars

\* A page of four samples of which two were recovered into and two skipped.
SkipAccountingWitness ==
    /\ w.pc = "persist" /\ w.resolver /\ ~w.stop_after_page
    /\ w.kind = "samples"
    /\ Len(w.items) = 4
    /\ \A i \in 1..4 : OtherwiseAcceptable(w.items[i])
    /\ Len(w.records_to_upsert) = 2
    /\ w.summary.skipped_unknown = 2

\* C8: a dependency recovery that fails, for whatever reason, ends with the
\* item skipped and the worker on its next item, never with the run aborted.
RecoveryFailureSkips == [][(w.pc = "recovering" /\ w'.pc # "recovering") => w'.pc \in {"deps", "item", "persist"}]_vars

\* C9: every batch that sync_batches is about to persist has all its sample
\* ids and test ids in the local tables, with or without a resolver.
BatchDependenciesStored ==
    (w.kind = "batches" /\ w.pc = "persist") =>
        \A i \in 1..Len(w.records_to_upsert) :
            /\ Range(w.records_to_upsert[i].sample_ids) \subseteq DOMAIN store["samples"]
            /\ Range(w.records_to_upsert[i].test_ids) \subseteq DOMAIN store["tests"]

WindowCheckFindsOld ==
    /\ window_mode
    /\ \/ w.pc = "post" /\ w.kind \in {"orders", "samples", "tests"}
       \/ w.pc = "item" /\ w.kind = "batches"
    /\ Older(CurrentItem)

WindowedStopStep ==
    /\ WindowCheckFindsOld => w'.stop_after_page
    /\ (w.kind # "customers" /\ w.stop_after_page /\ w.pc # "idle") =>
          /\ w'.requested = w.requested
          /\ w'.pc # "list"
          /\ (w.pc = "persist" /\ w'.pc # "except") =>
                /\ w'.pc = "complete"
                /\ \A i \in 1..Len(w.records_to_upsert) : w.records_to_upsert[i].id \in DOMAIN store'[w.kind]
          /\ w.pc = "complete" => w'.pc = "idle" /\ w'.outcome = "returned"
    /\ (w.kind = "customers" /\ w.pc = "persist" /\ w.current_page < w.total_pages) => w'.pc \in {"list", "except"}

FairSpec == Spec /\ WF_vars(Recover) /\ WF_vars(PersistRecord)

\* The place of a kind in the chain tests -> samples -> orders -> customers.
Rank(kind) ==
    CASE kind = "customers" -> 0
      [] kind = "orders" -> 1
      [] kind = "samples" -> 2
      [] kind = "tests" -> 3
      [] OTHER -> 3

\* The pending _recover calls of one ensure: each was called for a
\* dependency of the one before it, of a kind further down the chain, so no
\* pair occurs twice, and all but the innermost are in the visited set.
RankedStack ==
    /\ Len(rec.stack) <= 4
    /\ \A i \in 1..(Len(rec.stack) - 1) :
          /\ Rank(rec.stack[i + 1].entity_type) < Rank(rec.stack[i].entity_type)
          /\ <<rec.stack[i].entity_type, rec.stack[i].entity_id>> \in rec.visited
          /\ <<rec.stack[i + 1].entity_type, rec.stack[i + 1].entity_id>> # <<rec.stack[i].entity_type, rec.stack[i].entity_id>>
    /\ Cardinality(rec.visited) <= 4

\* No ensure call has failed with a cyclic dependency.
NoCyclicError == rec.last_error # "cyclic_dependency" /\ rec.outcome.error # "cyclic_dependency"

\* A top-level ensure call starts with an empty visited set.
FreshVisited ==
    (rec.pc \in {"idle", "attempt"} /\ rec'.pc = "recover") => rec'.visited = {} /\ Len(rec'.stack) = 1

AttemptsWithinBound ==
    rec.caller = "worker" =>
        /\ rec.attempts <= rec.max_attempts
        /\ rec.pc \in {"recover", "persist"} => rec.attempts >= 1
        /\ rec.pc = "returned" =>
              IF rec.outcome.succeeded
              THEN rec.outcome.attempts \in 1..rec.max_attempts /\ rec.outcome.attempts = rec.attempts /\ rec.outcome.error = "None"
              ELSE rec.outcome.attempts = rec.max_attempts /\ rec.outcome.error = rec.last_error /\ rec.outcome.error # "None"

\* One step of attempt_dependency_recovery: an ensure call is made only
\* from the head of the loop, one at a time, and none after the outcome has
\* been returned.
AttemptStep ==
    (rec.caller = "worker" /\ rec'.caller = "worker") =>
        /\ rec'.attempts # rec.attempts =>
              \/ rec.pc = "attempt" /\ rec'.pc = "recover" /\ rec'.attempts = rec.attempts + 1
              \/ rec.pc = "idle" /\ rec'.pc = "attempt" /\ rec'.attempts = 0
        /\ rec.pc = "returned" => rec'.pc \in {"returned", "idle"}
        /\ (rec.pc \in {"recover", "persist"} /\ rec'.pc = "returned") => rec'.outcome.succeeded

\* C12: attempt_dependency_recovery with max_attempts = N calls ensure at
\* most N times and not again after a success; it returns success with the
\* attempts made, between 1 and N, or failure with attempts = N and the
\* error of the last attempt.
BoundedAttempts == []AttemptsWithinBound /\ [][AttemptStep]_vars

\* A recovery that gave up after max_attempts ensure calls, each of which
\* found the entity missing remotely.
BoundedAttemptsWitness ==
    /\ rec.caller = "worker"
    /\ rec.pc = "returned"
    /\ ~rec.outcome.succeeded
    /\ rec.outcome.attempts = MaxAttempts
    /\ rec.outcome.error = "not_found_remote"

\* ------------------------------------------------- properties of the client

\* Only 429 answers so far in the current _request, the last one apart.
OnlyRateLimited == client.seen.s401 = 0 /\ client.seen.s400auth = 0

RateLimitCalls ==
    /\ (client.pc \in {"check", "send"} /\ OnlyRateLimited) => (client.calls = client.seen.s429 /\ client.calls <= client.max_retries)
    /\ (client.pc = "returned" /\ OnlyRateLimited) =>
           IF client.response.status # 429
           THEN client.seen.s429 <= client.max_retries /\ client.calls = client.seen.s429 + 1
           ELSE client.seen.s429 = client.max_retries + 1 /\ client.calls = client.max_retries + 1

RateLimitSleep ==
    (client.pc \in {"send", "replay"} /\ client'.attempt = client.attempt + 1 /\ client'.pc = "check") =>
        /\ client'.response.status = 429
        /\ client'.slept = (IF Float(client'.response.retry_after) # NoneVal THEN Float(client'.response.retry_after) ELSE Pow(client.backoff_factor, client.attempt))

\* C13: a _request answered by k <= max_retries 429s and then another status
\* makes k+1 calls and returns that answer; answered by 429s only it returns
\* the 429 after max_retries+1 calls; each retry sleeps for the numeric
\* Retry-After value, else for 1 * backoff_factor^(429s retried before).
RateLimitBackoff == []RateLimitCalls /\ [][RateLimitSleep]_vars

RateLimitBackoffWitness ==
    /\ client.pc = "returned"
    /\ OnlyRateLimited
    /\ client.max_retries = 2
    /\ client.seen.s429 = 2
    /\ client.response.status = 200
    /\ client.calls = 3
    /\ client.slept = 2

\* The steps of the client that are its own: everything but a new call and
\* the clock.
ClientStep ==
    \/ _ensure_token_valid
    \/ \E response \in ApiResponses : SendRequest(response)
    \/ Reauthenticate401
    \/ \E response \in ApiResponses : ReplayRequest(response)
    \/ Reauthenticate400
    \/ OperationReturn

\* The client runs on one thread that is never suspended for good, and
\* every request it sends is answered.
FairClientSpec == ClientSpec /\ WF_vars(ClientStep)

InRequest == client.pc \in {"check", "send", "unauthorized", "replay", "bad_request"}

ReauthBounded ==
    /\ client.auths.on401 + client.auths.on400 = client.reauth_attempts + (IF client.pc = "replay" THEN 1 ELSE 0)
    /\ client.auths.on401 <= client.max_retries + 1
    /\ client.calls <= 3 * (client.max_retries + 1)
    /\ client.pc = "unauthorized" => client.response.status = 401
    /\ (client.pc = "returned" /\ client.calls > 0 /\ client.seen.s401 = client.calls) =>
           /\ client.response.status = 401
           /\ client.auths.on401 = client.max_retries + 1
           /\ client.calls = 2 * (client.max_retries + 1)

ReauthOnceAndReplay ==
    /\ (client.pc = "send" /\ client'.pc # "send" /\ client'.response.status = 401) => client'.pc = "unauthorized"
    /\ client.pc = "unauthorized" =>
           /\ client'.pc = "replay"
           /\ client'.auths.on401 = client.auths.on401 + 1
           /\ client'.fresh = 1
           /\ client'.calls = client.calls
    /\ client.pc = "replay" =>
           /\ client'.calls = client.calls + 1
           /\ client'.auths = client.auths
           /\ client'.sent.fresh = 1

\* C14: a 401 answer to the request of a round is followed by one
\* _authenticate and one replay with the new token; the re-authentications
\* of one _request never exceed max_retries+1; answered by 401s only,
\* _request returns the 401 after max_retries+1 re-authentications; and every
\* _request returns.
UnauthorizedBounded == []ReauthBounded /\ [][ReauthOnceAndReplay]_vars /\ (InRequest ~> client.pc = "done")

UnauthorizedBoundedWitness ==
    /\ client.pc = "returned"
    /\ client.max_retries = 2
    /\ client.seen.s401 = client.calls
    /\ client.calls = 6
    /\ client.auths.on401 = 3
    /\ client.response.status = 401

\* C15: a 400 answer whose body reports the token (invalid_grant, or
\* invalid_request with 'Invalid Authorization header format') is retried
\* after a re-authentication like a 401: _request returns such an answer only
\* when the re-authentications of the request have reached the limit.
InvalidTokenRetried == (client.pc = "returned" /\ retry_due_to_auth(client.response)) => client.reauth_attempts >= client.max_retries

AtOrPastMargin == client.now >= client.token_expires_at - _TOKEN_REFRESH_MARGIN_SECONDS

TokenCheckStep ==
    /\ client.pc = "check" /\ client'.pc = "send" =>
           IF AtOrPastMargin
           THEN /\ client'.auths.refresh = client.auths.refresh + 1
                /\ client'.fresh = 1
                /\ client'.due
                /\ client'.token_expires_at = client.now + client.token_payload.value
           ELSE /\ client'.auths = client.auths
                /\ client'.fresh = 0
                /\ ~client'.due
                /\ client'.token_expires_at = client.token_expires_at
    /\ client.pc = "send" =>
           /\ client'.now = client.now
           /\ client'.auths = client.auths
           /\ client'.token_expires_at = client.token_expires_at
           /\ client'.calls = client.calls + 1
           /\ client'.sent = [checked |-> TRUE, due |-> client.due, fresh |-> client.fresh]

TokenChecked == client.sent.checked => client.sent.fresh = (IF client.sent.due THEN 1 ELSE 0)

\* C16: the request that opens a round of _request follows a check of the
\* token lifetime: at or past expiry minus the 60 s margin exactly one
\* _authenticate runs and the request carries the new token; before that
\* point none runs and the request carries the current token.
TokenRefresh == []TokenChecked /\ [][TokenCheckStep]_vars

TokenRefreshWitness ==
    /\ client.pc = "done"
    /\ client.now = 60
    /\ client.token_payload.value = 120
    /\ client.token_expires_at = 180
    /\ client.calls = 1
    /\ client.sent = [checked |-> TRUE, due |-> TRUE, fresh |-> 1]
    /\ client.auths = [refresh |-> 1, on401 |-> 0, on400 |-> 0]
    /\ client.result = "json"

\* An answer _request hands back without any retry of its own.
NotRetried(response) == response.status \notin {401, 429} /\ ~retry_due_to_auth(response)

FirstAnswerNotRetried == client.pc = "returned" /\ ~client.legacy /\ client.calls = 1 /\ NotRetried(client.response)

Handed(s) ==
    IF s.response.status < 400 THEN "json"
    ELSE IF s.response.status = 404 /\ s.op \in {"fetch_customer", "fetch_order", "fetch_sample", "fetch_batch", "fetch_test"} THEN "None"
    ELSE "HTTPStatusError"

LegacyCase == client.op \in {"list_tests", "fetch_test"} /\ client.include_raw /\ client.response.status = 400

SingleRequestStep ==
    /\ FirstAnswerNotRetried =>
           IF LegacyCase
           THEN client'.pc = "check" /\ client'.legacy /\ client'.calls = 0 /\ client'.result = "none"
           ELSE client'.pc = "done" /\ client'.result = Handed(client)
    /\ (client.pc = "returned" /\ client.legacy) => (client'.pc = "done" /\ client'.result = Handed(client))

ExpectedLookback == IF recent.lookback_days = NoneVal THEN 7 ELSE IF recent.lookback_days < 0 THEN 0 ELSE recent.lookback_days

\* C18: sync_recent_entities calls sync_all_entities once, with
\* ignore_checkpoint set, full_refresh unset and a window as long as the
\* lookback (0 days for a negative one); it makes one recovery service,
\* every handler call of the run gets that instance, and it is closed once,
\* after the run, whether the run returned or raised.
RecentWindowRun ==
    recent.pc # "idle" =>
        /\ recent.invoked = 1
        /\ recent.created = 1
        /\ recent.closed = (IF recent.pc = "done" THEN 1 ELSE 0)
        /\ recent.pc = "done" <=> (p.pc = "idle" /\ p.outcome # "none" /\ recent.outcome # "none")
        /\ recent.pc = "done" => (recent.outcome = "returned" <=> p.outcome = "returned")
        /\ p.outcome # "ValueError" =>
               /\ p.ignore_checkpoint
               /\ ~p.full_refresh
               /\ p.end_datetime - p.start_datetime = ExpectedLookback
               /\ p.dependency_resolver = recent.resolver
        /\ \A i \in 1..Len(p.calls) :
               /\ p.calls[i].dependency_resolver = recent.resolver
               /\ p.calls[i].dependency_resolver # 0
               /\ p.calls[i].ignore_checkpoint
               /\ ~p.calls[i].full_refresh
               /\ p.calls[i].end_datetime - p.calls[i].start_datetime = ExpectedLookback

RecentWindowRunWitness ==
    /\ recent.pc = "done"
    /\ recent.outcome = "raised"
    /\ recent.lookback_days < 0
    /\ recent.lookback_days # NoneVal
    /\ recent.closed = 1
    /\ Len(p.calls) = 2
    /\ p.outcome = "SyncOrchestrationError"
    /\ p.calls[2].start_datetime = p.calls[2].end_datetime

\* ------------------------------------------------- properties of the checkpoint row

Running(c) == c.status = "running" /\ ~c.failed /\ c.message = "None"

StatusWhileRunning == w.pc # "idle" => Running(ckpt[w.kind])

RunStatusStep ==
    /\ (w.pc = "idle" /\ w'.pc # "idle") => (w'.pc = "list" /\ w'.summary.pages_seen = 0 /\ Running(ckpt'[w'.kind]))
    /\ (w.pc = "persist" /\ w'.pc # "persist") => Running(ckpt'[w.kind])
    /\ (w.pc # "idle" /\ w'.pc = "idle") =>
           /\ w'.outcome \in {"returned", "raised"}
           /\ w'.outcome = "returned" <=> w.pc = "complete"
           /\ w'.outcome = "raised" <=> w.pc = "except"
           /\ w'.outcome = "returned" <=> (ckpt'[w.kind].status = "completed" /\ ~ckpt'[w.kind].failed /\ ckpt'[w.kind].message = "None")
           /\ w'.outcome = "raised" <=> (ckpt'[w.kind].status = "failed" /\ ckpt'[w.kind].failed /\ ckpt'[w.kind].message = w.error /\ w.error # "None")

StoredCursor(c) == IF c.last_cursor = NoneVal \/ c.last_cursor = 0 THEN 1 ELSE c.last_cursor

PlainRun == ~w.full_refresh /\ ~w.ignore_checkpoint

StartResolved ==
    w.outcome # "none" \/ w.pc # "idle" =>
        /\ w.start_page = (IF w.full_refresh \/ w.ignore_checkpoint THEN 1 ELSE StoredCursor(w.before))
        /\ w.requested # << >> => w.requested[1].page_num = w.start_page
        /\ w.last_id = (IF w.full_refresh \/ w.ignore_checkpoint THEN NoneVal ELSE w.before.last_id)
        /\ (~PlainRun /\ w.start_datetime = NoneVal) => w.summary.skipped_old = 0
        /\ (PlainRun /\ w.before.last_id # NoneVal) =>
               \A i \in 1..Len(w.records_to_upsert) : w.records_to_upsert[i].id > w.before.last_id

StartStep ==
    (w.pc = "idle" /\ w'.pc # "idle") =>
        LET kind == w'.kind
        IN /\ w'.before = ckpt[kind]
           /\ w'.requested = << >>
           /\ IF w'.full_refresh
              THEN ckpt'[kind].last_cursor = 1 /\ ckpt'[kind].last_id = NoneVal /\ ckpt'[kind].last_synced_at = NoneVal
              ELSE ckpt'[kind].last_cursor = ckpt[kind].last_cursor /\ ckpt'[kind].last_id = ckpt[kind].last_id /\ ckpt'[kind].last_synced_at = ckpt[kind].last_synced_at

\* C20: a full_refresh run resets the stored cursor to 1 and clears the
\* stored last_id and last_synced_at before its first page request and skips
\* no item as stale; an ignore_checkpoint run starts at page 1 with no
\* last_id filter whatever is stored; any other run starts at the stored
\* cursor (page 1 when there is none) and accepts no item whose id is <= the
\* stored last_id.
StartResolution == []StartResolved /\ [][StartStep]_vars

StartResolutionWitness ==
    /\ PlainRun
    /\ w.before.last_cursor = 2
    /\ w.before.last_id # NoneVal
    /\ w.requested # << >>
    /\ w.requested[1].page_num = 2
    /\ w.summary.skipped_old >= 1
    /\ w.outcome = "returned"

\* ---------------------------------------------------------------- C21
\* The ids of a sequence of rows.
RowIds(rows) == { rows[i].id : i \in DOMAIN rows }

\* The step has upserted rows into the table of kind: the stored ids are the
\* old ones and those of rows (one row per id, the table being keyed by id),
\* each row of rows is stored as the payload gave it, every other row and
\* table is as before, and upserting rows once more changes nothing.
Upserted(kind, rows) ==
    /\ DOMAIN store'[kind] = DOMAIN store[kind] \cup RowIds(rows)
    /\ RowIds(rows) \subseteq DOMAIN store[kind] => Cardinality(DOMAIN store'[kind]) = Cardinality(DOMAIN store[kind])
    /\ \A i \in DOMAIN rows : store'[kind][rows[i].id] = rows[i]
    /\ \A j \in DOMAIN store[kind] \ RowIds(rows) : store'[kind][j] = store[kind][j]
    /\ \A k \in Kinds \ {kind} : store'[k] = store[k]
    /\ UpsertAll(store'[kind], rows) = store'[kind]

\* No table loses a row.
RowsKept == \A k \in Kinds : DOMAIN store[k] \subseteq DOMAIN store'[k]

IngestStep ==
    /\ RowsKept
    /\ w.pc = "persist" /\ w'.pc # "persist" => Upserted(w.kind, w.records_to_upsert)
    /\ rec.pc = "persist" /\ rec'.pc # "persist" => Upserted(rec.stack[Len(rec.stack)].entity_type, <<Row(rec.stack[Len(rec.stack)].record)>>)

\* C21: a page or a recovered record is upserted by id: re-ingesting ids the
\* store holds leaves one row per id, the set of ids and the row count
\* unchanged, with the fields of the latest payload; ingesting the same rows
\* again leaves the stored rows as they are; no ingestion step removes a row.
UpsertIdempotent == [][IngestStep]_vars

\* A full-refresh page with order 1 has been committed after an ensure call
\* had stored order 1: one row, with the fields of the page.
UpsertIdempotentWitness ==
    /\ rec.pc = "returned" /\ rec.entity_type = "orders" /\ rec.entity_id = 1 /\ rec.writes = 1
    /\ w.pc = "list" /\ w.kind = "orders" /\ w.full_refresh /\ w.summary.processed = 1 /\ w.max_id = 1
    /\ DOMAIN store["orders"] = {1}
    /\ store["orders"][1].created = w.max_synced_at

\* ---------------------------------------------------------------- C22
\* The _recover call on top of the stack is for an entity the store holds.
RecoverOfExisting ==
    /\ rec.pc = "recover"
    /\ LET f == rec.stack[Len(rec.stack)]
       IN /\ <<f.entity_type, f.entity_id>> \notin rec.visited
          /\ f.entity_id \in DOMAIN store[f.entity_type]

\* Such a call returns in one step without a fetch, a row or a checkpoint
\* change: out of ensure with success when it is the outermost call, to its
\* caller's _persist_record when it was reached through a dependency.
ExistingStep ==
    RecoverOfExisting =>
        /\ store' = store /\ ckpt' = ckpt
        /\ rec'.fetches = rec.fetches /\ rec'.writes = rec.writes
        /\ IF Len(rec.stack) = 1
           THEN rec'.pc = "returned" /\ rec'.outcome.succeeded /\ rec'.fetches = 0 /\ rec'.writes = 0
           ELSE rec'.pc = "persist" /\ rec'.stack = SubSeq(rec.stack, 1, Len(rec.stack) - 1)

\* C22: ensure for an entity that exists locally succeeds at once, with no
\* remote fetch, no row written and every checkpoint unchanged, and so does
\* the recursion into a dependency that exists locally.
EnsureExisting == [][ExistingStep]_vars

\* ensure has returned success for an entity it found in the store.
EnsureExistingWitness ==
    /\ rec.pc = "returned" /\ rec.caller = "ensure" /\ rec.outcome.succeeded
    /\ rec.fetches = 0 /\ rec.writes = 0
    /\ rec.entity_id \in DOMAIN store[rec.entity_type]

\* ---------------------------------------------------------------- C24
\* The sort parameters the claim expects of a run.
ExpectedSort == IF window_mode THEN <<"date_created", "desc">> ELSE <<"id", "asc">>

\* C24: every page request of a run asks for ascending id when the run is not
\* windowed and for descending creation time when it is, and the page numbers
\* requested are start_page, start_page + 1, ... in this order.
SortOrderPerMode ==
    \A i \in 1..Len(w.requested) :
        /\ <<w.requested[i].sort_by, w.requested[i].sort_order>> = ExpectedSort
        /\ w.requested[i].page_num = w.start_page + i - 1

\* ---------------------------------------------------------------- C25
\* The loop takes up an item that is stale: it counts the item as skipped
\* for its age and goes on to the next, with no skip record and no call of
\* the recovery.
StaleFirstStep ==
    (w.pc = "item" /\ Stale(CurrentItem)) =>
        /\ w'.summary.skipped_old = w.summary.skipped_old + 1
        /\ w'.summary.skipped_entities = w.summary.skipped_entities
        /\ w'.pc \in {"item", "persist"}
        /\ rec' = rec

\* C25: every worker checks an item's staleness before its dependency: a
\* stale item is counted as skipped for its age and triggers neither a
\* dependency recovery nor a missing-dependency skip record.
StaleBeforeDependency == [][StaleFirstStep]_vars

\* ---------------------------------------------------------------- C30
\* What a checkpoint row says about the last run of its kind.
RunReport(c) == <<c.status, c.failed, c.message>>

\* The step belongs to a worker run of kind k: its start, or a step of the
\* running worker itself, not of a recovery it has called.
WorkerStepOf(k) ==
    \/ w.pc = "idle" /\ w'.pc # "idle" /\ w'.kind = k
    \/ w.pc # "idle" /\ w.kind = k /\ rec.pc = "idle"

\* C30: the status, the failed flag and the message of the checkpoint of a
\* kind change only in steps of a worker run of that kind; a recovery that
\* persists an entity of the kind leaves them as they are.
RunReportOwned == [][\A k \in Kinds : RunReport(ckpt'[k]) # RunReport(ckpt[k]) => WorkerStepOf(k)]_vars

\* ---------------------------------------------------------------- C28
\* ensure has caught a RecoveryError and returned EnsureResult(False, error),
\* to its caller or to the retry loop of attempt_dependency_recovery.
EnsureResultFailed ==
    \/ rec.pc = "returned" /\ ~rec.outcome.succeeded
    \/ rec.pc = "attempt" /\ rec.attempts > 0

\* Every row and every checkpoint change of a recovery is one counted
\* _persist_record.
WritesCounted == (rec.pc # "idle" /\ w.pc \in {"idle", "recovering"} /\ (store' # store \/ ckpt' # ckpt)) => rec'.writes = rec.writes + 1

\* C28: an ensure call that returns a failed result has written no row and
\* changed no checkpoint, and one that returns success has stored the entity
\* it was asked for: the chain is persisted whole or not at all.
AllOrNothing ==
    /\ [](EnsureResultFailed => rec.writes = 0)
    /\ []((rec.pc = "returned" /\ rec.outcome.succeeded) => rec.entity_id \in DOMAIN store[rec.entity_type])
    /\ [][WritesCounted]_vars

\* ensure(samples, 3) has failed at the third level: sample 3 and order 3 were
\* fetched, customer 9 is not on the remote system, nothing was written.
AllOrNothingWitness ==
    /\ rec.pc = "returned" /\ rec.caller = "ensure" /\ ~rec.outcome.succeeded
    /\ rec.entity_type = "samples" /\ rec.entity_id = 3
    /\ rec.outcome.error = "not_found_remote"
    /\ rec.fetches = 3 /\ rec.writes = 0
    /\ store["orders"] = << >> /\ store["samples"] = << >>

\* ---------------------------------------------------------------- C26
\* Every dependency of the item is in the local tables.
DependenciesStored(kind, item) ==
    LET deps == ItemDependencies(kind, item)
    IN \A i \in 1..Len(deps) : deps[i].id \in DOMAIN store[deps[i].kind]

\* The step skips the current item as stale.
SkipsAsStale ==
    /\ w.pc \in {"item", "post"}
    /\ Stale(CurrentItem)
    /\ w'.summary.skipped_old = w.summary.skipped_old + 1

\* C26: whatever runs and recoveries have raised the stored last_id, an item
\* that a later run skips as stale, and whose dependencies are stored, is an
\* item that has been ingested: its row is in the table.
StaleMeansIngested == [][(SkipsAsStale /\ DependenciesStored(w.kind, CurrentItem)) => CurrentItem.id \in DOMAIN store[w.kind]]_vars

\* ---------------------------------------------------------------- C27
\* The items on the pages a run has requested.
RequestedItems ==
    UNION { Range(RemoteList(w.kind, w.requested[i].page_num, w.page_size, w.requested[i].sort_by, w.requested[i].sort_order).data) : i \in 1..Len(w.requested) }

\* An incremental run with no window bounds, which followed a completed
\* worker run of its kind, has returned; it asked for pages of two items and
\* none of its requests was answered with an error.
CatchUpRunDone ==
    /\ w.pc = "idle" /\ w.outcome = "returned"
    /\ ~w.full_refresh /\ ~w.ignore_checkpoint /\ w.start_datetime = NoneVal
    /\ w.before.status = "completed" /\ w.before.message = "None" /\ w.before.last_id # NoneVal
    /\ w.page_size = 2
    /\ w.summary.page_bad_request_failures = 0 /\ w.summary.detail_bad_request_failures = 0

\* C27: the pages requested by an incremental run that follows a completed
\* run of the same kind, from the stored cursor on in the worker's sort
\* order, contain the item created in between, whose id is greater than the
\* stored last_id, and the run stores it when its dependencies are stored.
CatchUpComplete ==
    (CatchUpRunDone /\ NewItem(w.kind) \in remote[w.kind] /\ NewItem(w.kind).id > w.before.last_id) =>
        /\ NewItem(w.kind) \in RequestedItems
        /\ DependenciesStored(w.kind, NewItem(w.kind)) => NewItem(w.kind).id \in DOMAIN store[w.kind]

\* ---------------------------------------------------------------- C29
\* The two counters of a _request stay within their limits, and so do the
\* re-authentications that responses have triggered.
RetryCounters ==
    (InRequest \/ client.pc = "returned") =>
        /\ client.reauth_attempts <= client.max_retries + 1
        /\ client.attempt <= client.max_retries + 1
        /\ client.auths.on401 + client.auths.on400 <= client.max_retries + 1
        /\ client.seen.s429 >= client.attempt

\* A round of the loop that ends without a return has raised at least one
\* of the two counters.
RoundCounted ==
    (client.pc \in {"send", "replay", "bad_request"} /\ client'.pc = "check") =>
        client'.reauth_attempts + client'.attempt > client.reauth_attempts + client.attempt

\* C29: whatever the server answers, a _request returns: its
\* re-authentications and the 429 answers it handles never exceed
\* max_retries+1 each, every round that does not return counts as one of
\* them, and the call reaches its return.
RequestTerminates == []RetryCounters /\ [][RoundCounted]_vars /\ (client.pc = "check" ~> client.pc = "returned")

\* A _request with max_retries 2 has returned a 200 after a 401, a 400 that
\* reported the token and a 429.
RequestTerminatesWitness ==
    /\ client.pc = "returned"
    /\ client.max_retries = 2
    /\ client.seen.s401 >= 1 /\ client.seen.s400auth >= 1 /\ client.seen.s429 >= 1
    /\ client.reauth_attempts = 2 /\ client.attempt = 1
    /\ client.response.status = 200

\* C23: nothing guards the checkpoint against a second run of the same kind.
\* While another process is inside sync_samples, every _persist_batch and
\* every _mark_checkpoint_completed stores the page and the id of the run
\* that commits, whatever the checkpoint holds; so a state is reached in
\* which the stored last_id and last_cursor are lower than values the
\* checkpoint held before.
CommitOfOwnLocals ==
    (w.pc \in {"persist", "complete"} /\ w.kind = "samples" /\ w' # w /\ dup' = dup) =>
        /\ ckpt'["samples"].last_cursor = w.current_page
        /\ (w.pc = "complete" \/ w.records_to_upsert # <<>>) => ckpt'["samples"].last_id = w.max_id

UnguardedCheckpoint == [][CommitOfOwnLocals]_vars

UnguardedCheckpointWitness ==
    /\ w.kind = "samples" /\ w.pc = "list" /\ w.current_page = w.start_page + 1
    /\ dup.w.kind = "samples" /\ dup.w.outcome = "returned"
    /\ ~w.full_refresh /\ ~w.ignore_checkpoint /\ ~dup.w.full_refresh /\ ~dup.w.ignore_checkpoint
    /\ ckpt["samples"].last_id # NoneVal
    /\ ckpt["samples"].last_id < dup.high.last_id
    /\ ckpt["samples"].last_cursor < dup.high.last_cursor

====
